---- MODULE Spec2Model ----
(***************************************************************************)
(* Collection-and-broadcast pipeline of iot-hub-statuspage:                *)
(*   internal/metrics/collector.go  (Collector: Start, collect,            *)
(*                                    collectDockerStats, read accessors)  *)
(*   internal/web/server.go         (Server: handleSSE, getCurrentStatus,  *)
(*                                    broadcastUpdates, handleAPIStatus)   *)
(*                                                                         *)
(* Conventions.                                                            *)
(*  - A reading an adapter returns during collection tick t is the number  *)
(*    t (t >= 1), so a value says which tick produced it; 0 is the Go zero *)
(*    value of the field.                                                  *)
(*  - The field "tick" of a snapshot / of the container list is history    *)
(*    information: the tick whose collect() stored the value.              *)
(*  - Strings built by the program are sequences of characters; a          *)
(*    formatted duration is the sequence of its <<number, unit>> parts, a  *)
(*    formatted number <<integer part, first decimal>>; the empty string   *)
(*    is <<>>.  A float64 is the exact fraction [n, d].                    *)
(*  - A critical section (Lock ... Unlock, RLock ... RUnlock) is one       *)
(*    atomic step; I/O outside the locks is merged with the next step that *)
(*    touches shared state.  The variables mu and sseMutex say whether a   *)
(*    mutex is held between two steps.                                     *)
(*  - "now" counts seconds since the process started; the zero time.Time   *)
(*    is 0.  netHist is history information: the last two successful       *)
(*    samples of the network counters with the times they were taken.      *)
(***************************************************************************)
EXTENDS Integers, Sequences, FiniteSets, TLC

\* ---------------------------------------------------------------- bounds
MaxTicks == 2
MaxFailures == 2
MaxClients == 2
MaxMissed == 2
MaxInserted == 1
MaxDays == 1
MaxMantissa == 3

\* ------------------------------------------------------------ data model
Adapters == {"cpu", "mem", "disk", "net", "uptime", "dbsize", "dbping", "haproxy", "docker", "pi5", "pi52"}

Rat(n, d) == [n |-> n, d |-> d]

ZeroRat == Rat(0, 1)

ZeroMetrics == [tick |-> 0, CPUPercent |-> 0, MemoryPercent |-> 0, MemoryUsed |-> 0, MemoryTotal |-> 0, DiskPercent |-> 0, DiskUsed |-> 0, DiskTotal |-> 0, NetworkIn |-> ZeroRat, NetworkOut |-> ZeroRat, Uptime |-> 0, DatabaseSize |-> 0, DatabaseConnected |-> FALSE, HAProxyConnected |-> FALSE, DockerConnected |-> FALSE, Pi5Connected |-> FALSE, Pi52Connected |-> FALSE]

NilDockerStatus == [tick |-> 0, arr |-> 0, list |-> <<>>]

\* No prefix at all.
EmptyPrefix == <<>>

HaproxyPrefix == <<"h", "a", "p", "r", "o", "x", "y", "_">>

DockerPrefix == <<"d", "o", "c", "k", "e", "r", "_">>

\* Inputs the adapters can return (names are character sequences).
NameWeb == <<"w", "e", "b">>

NameApp == <<"/", "a", "p", "p">>

BackendUp == [Name |-> NameWeb, Status |-> "UP", Active |-> TRUE, LastChange |-> 3661]

BackendDown == [Name |-> NameWeb, Status |-> "DOWN", Active |-> FALSE, LastChange |-> 90]

ContainerHealthy == [Names0 |-> NameApp, State |-> "running", InspectOk |-> TRUE, Health |-> "healthy", StartedSecs |-> 90000]

ContainerSick == [Names0 |-> NameApp, State |-> "running", InspectOk |-> TRUE, Health |-> "unhealthy", StartedSecs |-> 90]

ContainerExited == [Names0 |-> NameApp, State |-> "exited", InspectOk |-> FALSE, Health |-> "", StartedSecs |-> 0]

\* ------------------------------------------------------- pure functions
\* collector.go:309-320: formatDuration of package metrics.
formatDuration(secs) ==
    LET days == (secs \div 3600) \div 24
        hours == (secs \div 3600) % 24
        minutes == (secs \div 60) % 60
    IN  IF days > 0 THEN << <<days, "d">>, <<hours, "h">>, <<minutes, "m">> >>
        ELSE IF hours > 0 THEN << <<hours, "h">>, <<minutes, "m">> >>
        ELSE << <<minutes, "m">> >>

TrimSlash(name) ==
    IF Len(name) > 0 /\ name[1] = "/" THEN Tail(name) ELSE name

\* One container of ContainerList turned into its types.ServiceStatus.
ContainerStatus(c) ==
    LET base == [Name |-> TrimSlash(c.Names0), Status |-> c.State, Healthy |-> (c.State = "running"), LastChange |-> <<>>, Uptime |-> <<>>, Details |-> <<>>]
        h1 == IF c.InspectOk /\ c.Health # ""
              THEN [base EXCEPT !.Healthy = (c.Health = "healthy"), !.Details = IF c.Health # "healthy" THEN <<c.Health>> ELSE <<>>]
              ELSE base
    IN  IF c.InspectOk /\ c.StartedSecs > 0
        THEN [h1 EXCEPT !.Uptime = formatDuration(c.StartedSecs)]
        ELSE h1

\* The storage.ServiceStatus row collectDockerStats appends for a container.
DockerRow(s) ==
    [Service |-> DockerPrefix \o s.Name, Status |-> IF s.Healthy THEN "UP" ELSE "DOWN", Details |-> s.Details]

\* The storage.ServiceStatus row collect() appends for an HAProxy backend.
HaproxyRow(b) ==
    [Service |-> HaproxyPrefix \o b.Name, Status |-> IF b.Active THEN "UP" ELSE "DOWN", Details |-> <<>>]

MetricRow(type, value) == [MetricType |-> type, Value |-> value]

\* The quotient without the check for a negative result.
NetRateUnclamped(cur, last, timeDiff) == Rat(cur - last, timeDiff)

\* (cur - last) / timeDiff, clamped to zero when negative.
NetRate(cur, last, timeDiff) ==
    IF cur - last < 0 THEN ZeroRat ELSE Rat(cur - last, timeDiff)

\* fmt's rounding of n/d to an integer (ties to even), n >= 0, d > 0.
RoundHalfEven(n, d) ==
    LET q == n \div d
        r == n % d
    IN  IF 2 * r > d THEN q + 1
        ELSE IF 2 * r = d THEN q + (q % 2)
        ELSE q

\* Sprintf("%.1f", n/d): <<integer part, decimal digit>>.
Dec1(r) ==
    LET k == RoundHalfEven(10 * r.n, r.d)
    IN  <<k \div 10, k % 10>>

Unit == 1024

\* A unit choice that never goes beyond KB.
BytesExpOnce(r, div, exp) == <<div, exp>>

RECURSIVE BytesExp(_, _, _)
\* server.go:405-409: the loop "for n := bytes/unit; n >= unit; n /= unit",
\* on the fraction n/d; returns <<div, exp>>.
BytesExp(r, div, exp) ==
    IF r.n >= Unit * div * r.d
    THEN BytesExp(r, div * Unit, exp + 1)
    ELSE <<div, exp>>

UnitChars == <<"K", "M", "G", "T", "P", "E">>

\* server.go:399-412.
formatBytes(r) ==
    IF r.n < Unit * r.d
    THEN <<RoundHalfEven(r.n, r.d), "B">>
    ELSE LET de == BytesExp(r, Unit, 0)
         IN  <<Dec1(Rat(r.n, r.d * de[1])), UnitChars[de[2] + 1] \o "B">>

\* server.go:414-425: formatDuration of package web.
webFormatDuration(secs) ==
    LET days == (secs \div 3600) \div 24
        hours == (secs \div 3600) % 24
        minutes == (secs \div 60) % 60
    IN  IF days > 0 THEN << <<days, "d">>, <<hours, "h">>, <<minutes, "m">> >>
        ELSE IF hours > 0 THEN << <<hours, "h">>, <<minutes, "m">> >>
        ELSE << <<minutes, "m">> >>

\* server.go:296-316: one HAProxy backend as a types.ServiceStatus.
BackendStatus(b) ==
    LET lastChange == IF b.LastChange > 0 THEN webFormatDuration(b.LastChange) ELSE <<>>
    IN  [Name |-> b.Name, Status |-> b.Status, Healthy |-> b.Active, LastChange |-> lastChange,
         Uptime |-> IF b.Active THEN lastChange ELSE <<>>,
         Details |-> IF b.Active THEN <<>> ELSE <<"Down for ">> \o lastChange]

\* server.go:322-330.
SystemStatusOf(m) ==
    [CPUPercent |-> m.CPUPercent, MemoryPercent |-> m.MemoryPercent, DiskPercent |-> m.DiskPercent,
     NetworkIn |-> m.NetworkIn, NetworkOut |-> m.NetworkOut, Uptime |-> webFormatDuration(m.Uptime), DatabaseSize |-> m.DatabaseSize]

\* server.go:291-336: the StatusResponse of getCurrentStatus from what its
\* three calls returned; mtick and dtick say which ticks the two reads saw.
BuildStatus(backends, m, docker, nowT) ==
    [Services |-> [i \in 1..Len(backends) |-> BackendStatus(backends[i])] \o docker.list, System |-> SystemStatusOf(m), LastUpdated |-> nowT, mtick |-> m.tick, dtick |-> docker.tick]

ServiceSignals(s) == [status |-> s.Status, healthy |-> s.Healthy, details |-> s.Details, uptime |-> s.Uptime]

\* server.go:179-201 and 350-372: the signals event of a status; entry i of
\* "services" stands for the keys service<i-1>_status, _healthy, _details,
\* _uptime.
BuildEvent(status, nowT, origin) ==
    [Type |-> "signals", origin |-> origin, mtick |-> status.mtick, dtick |-> status.dtick,
     Data |-> [cpuPercent |-> Dec1(Rat(status.System.CPUPercent, 1)), memoryPercent |-> Dec1(Rat(status.System.MemoryPercent, 1)),
               diskPercent |-> Dec1(Rat(status.System.DiskPercent, 1)), networkIn |-> formatBytes(status.System.NetworkIn),
               networkOut |-> formatBytes(status.System.NetworkOut), uptime |-> status.System.Uptime,
               databaseSize |-> formatBytes(Rat(status.System.DatabaseSize, 1)), lastUpdated |-> nowT,
               services |-> [i \in 1..Len(status.Services) |-> ServiceSignals(status.Services[i])]]]

RECURSIVE templatesBytesExpStrict(_, _, _)
\* A unit loop that goes on only while n > unit.
templatesBytesExpStrict(r, div, exp) ==
    IF r.n > Unit * div * r.d
    THEN templatesBytesExpStrict(r, div * Unit, exp + 1)
    ELSE <<div, exp>>

RECURSIVE templatesBytesExp(_, _, _)
\* dashboard.templ:351-355: the unit loop of the template's formatBytes.
templatesBytesExp(r, div, exp) ==
    IF r.n >= Unit * div * r.d
    THEN templatesBytesExp(r, div * Unit, exp + 1)
    ELSE <<div, exp>>

\* dashboard.templ:345-358: formatBytes of package templates.
templatesFormatBytes(r) ==
    IF r.n < Unit * r.d
    THEN <<RoundHalfEven(r.n, r.d), "B">>
    ELSE LET de == templatesBytesExp(r, Unit, 0)
         IN  <<Dec1(Rat(r.n, r.d * de[1])), <<"K", "M", "G", "T", "P", "E">>[de[2] + 1] \o "B">>

\* dashboard.templ:360-362.
formatBytesUint64(bytes) == templatesFormatBytes(Rat(bytes, 1))

\* server.go:94-106: the DashboardData handleDashboard makes of a status; the
\* fields it does not set keep their zero values.
DashboardData(status) ==
    [Services |-> status.Services,
     System |-> [CPUPercent |-> status.System.CPUPercent, MemoryPercent |-> status.System.MemoryPercent,
                 MemoryUsed |-> 0, MemoryTotal |-> 0,
                 DiskPercent |-> status.System.DiskPercent, DiskUsed |-> 0, DiskTotal |-> 0,
                 NetworkIn |-> status.System.NetworkIn, NetworkOut |-> status.System.NetworkOut,
                 Uptime |-> status.System.Uptime, DatabaseSize |-> status.System.DatabaseSize,
                 DatabaseConnected |-> FALSE, HAProxyConnected |-> FALSE, DockerConnected |-> FALSE,
                 Pi5Connected |-> FALSE, Pi52Connected |-> FALSE],
     LastUpdated |-> status.LastUpdated]

\* dashboard.templ:364-394: the signals of the initial render; entry i of
\* "services" stands for the keys service<i-1>_status, _healthy, _details,
\* _uptime.
buildSignals(data) ==
    [cpuPercent |-> Dec1(Rat(data.System.CPUPercent, 1)), memoryPercent |-> Dec1(Rat(data.System.MemoryPercent, 1)),
     memoryUsed |-> formatBytesUint64(data.System.MemoryUsed), memoryTotal |-> formatBytesUint64(data.System.MemoryTotal),
     diskPercent |-> Dec1(Rat(data.System.DiskPercent, 1)),
     diskUsed |-> formatBytesUint64(data.System.DiskUsed), diskTotal |-> formatBytesUint64(data.System.DiskTotal),
     networkIn |-> templatesFormatBytes(data.System.NetworkIn), networkOut |-> templatesFormatBytes(data.System.NetworkOut),
     uptime |-> data.System.Uptime, databaseSize |-> templatesFormatBytes(Rat(data.System.DatabaseSize, 1)),
     databaseConnected |-> data.System.DatabaseConnected, haproxyConnected |-> data.System.HAProxyConnected,
     dockerConnected |-> data.System.DockerConnected, pi5Connected |-> data.System.Pi5Connected,
     pi52Connected |-> data.System.Pi52Connected, lastUpdated |-> data.LastUpdated,
     services |-> [i \in 1..Len(data.Services) |-> ServiceSignals(data.Services[i])]]

\* The keys of a signals map: <<0, k>> for the key k, <<i, k>> for the key
\* service<i-1>_k.
SignalKeys(signals) ==
    {<<0, k>> : k \in DOMAIN signals \ {"services"}}
        \cup UNION {{<<i, k>> : k \in DOMAIN signals.services[i]} : i \in 1..Len(signals.services)}

\* ------------------------------------------------------------ metrics store
\* db.go:55-68: the two tables.
Tables == {"service_status", "system_metrics"}

\* db.go:227: retention := 7 * 24 * time.Hour, in seconds.
Retention == 7 * 24 * 3600

\* db.go:117-129: the INSERTs of one BulkInsert call in their order, the
\* metric rows before the service rows.  A stored row carries the number of
\* the call and its position (its serial id) and the timestamp the store gives
\* it (CURRENT_TIMESTAMP, the start of the transaction).
BatchRows(metrics, statuses, batch, ts) ==
    [i \in 1..(Len(metrics) + Len(statuses)) |->
        IF i <= Len(metrics)
        THEN [table |-> "system_metrics", batch |-> batch, pos |-> i, timestamp |-> ts, row |-> metrics[i]]
        ELSE [table |-> "service_status", batch |-> batch, pos |-> i, timestamp |-> ts, row |-> statuses[i - Len(metrics)]]]

\* How a BulkInsert call ends: "ok", or the stage whose call fails ("begin",
\* "prepare", "insert" after "done" rows were inserted, "commit").
NoFailure == [stage |-> "ok", done |-> 0]

BeginFails == [stage |-> "begin", done |-> 0]

\* Inserts without a transaction: every row is visible as soon as its Exec
\* returns.
BulkInsertAutocommit(rows, batch, outcome) ==
    [rows |-> CASE outcome.stage \in {"begin", "prepare"} -> rows
                [] outcome.stage = "insert" -> rows \cup {batch[i] : i \in 1..outcome.done}
                [] OTHER -> rows \cup {batch[i] : i \in 1..Len(batch)},
     err |-> outcome.stage # "ok"]

\* db.go:96-137: one transaction; every early return runs the deferred
\* Rollback, only the Commit at 132 makes the rows visible.
BulkInsert(rows, batch, outcome) ==
    [rows |-> IF outcome.stage = "ok" THEN rows \cup {batch[i] : i \in 1..Len(batch)} ELSE rows,
     err |-> outcome.stage # "ok"]

\* A sweep that returns at its first failed DELETE.
cleanupStopsAtError(rows, cutoff, failed) ==
    IF "service_status" \in failed
    THEN rows
    ELSE {r \in rows : (r.table = "system_metrics" /\ "system_metrics" \in failed) \/ ~(r.timestamp < cutoff)}

\* db.go:231-241: one sweep of cleanupOldData: DELETE ... WHERE timestamp < $1
\* on service_status, then on system_metrics; a failed DELETE is printed and
\* the loop goes on to the next query.
cleanupOldData(rows, cutoff, failed) ==
    {r \in rows : r.table \in failed \/ ~(r.timestamp < cutoff)}

\* db.go:193-221: the rows of service_status with the greatest timestamp of
\* their service, put into a map keyed by the service (of several rows with
\* that timestamp the map keeps one).
GetLatestServiceStatuses(rows) ==
    LET S == {r \in rows : r.table = "service_status"}
    IN  [k \in {r.row.Service : r \in S} |->
            {r \in S : r.row.Service = k /\ \A q \in S : q.row.Service = k => q.timestamp <= r.timestamp}]


\* ------------------------------------------------------------- variables
VARIABLES cpc, tick, fail, loc, current, dockerStatus, lastNetworkIn, lastNetworkOut, lastCollectTime, now, dockerClient, ctxDone, bulkCalls, published, tickerC, missed, netHist, mu, dbRows, dbOpen, bulkErrs

collectorVars == <<cpc, tick, fail, loc, current, dockerStatus, lastNetworkIn, lastNetworkOut, lastCollectTime, now, dockerClient, ctxDone, bulkCalls, published, tickerC, missed, netHist, mu, dbRows, dbOpen, bulkErrs>>

\* The locals of collect(): metrics, systemMetrics, serviceStatuses, the
\* backends of stats; "queried"
\* records which adapters this tick has called.
NoLoc == [metrics |-> ZeroMetrics, systemMetrics |-> <<>>, serviceStatuses |-> <<>>, stats |-> <<>>, queried |-> {}]

FreshLoc(t) == [NoLoc EXCEPT !.metrics.tick = t]

Called(l, a) == [l EXCEPT !.queried = @ \cup {a}]

UptimeReading(t) == 60 * t

\* ------------------------------------------------ collect(), adapter by adapter
\* A collect() that writes a cpu row on every tick, with the zero of the
\* metrics struct when cpu.Percent failed.
SampleCPUDefaultRow(l, F, t) ==
    IF "cpu" \notin F
    THEN [Called(l, "cpu") EXCEPT !.metrics.CPUPercent = t, !.systemMetrics = Append(@, MetricRow("cpu", t))]
    ELSE [Called(l, "cpu") EXCEPT !.systemMetrics = Append(@, MetricRow("cpu", 0))]

\* collector.go:75-83.
SampleCPU(l, F, t) ==
    IF "cpu" \notin F
    THEN [Called(l, "cpu") EXCEPT !.metrics.CPUPercent = t, !.systemMetrics = Append(@, MetricRow("cpu", t))]
    ELSE Called(l, "cpu")

SampleMemory(l, F, t) ==
    IF "mem" \notin F
    THEN [Called(l, "mem") EXCEPT !.metrics.MemoryPercent = t, !.metrics.MemoryUsed = t, !.metrics.MemoryTotal = t,
                                  !.systemMetrics = @ \o <<MetricRow("memory", t), MetricRow("memory_used", t), MetricRow("memory_total", t)>>]
    ELSE Called(l, "mem")

SampleDisk(l, F, t) ==
    IF "disk" \notin F
    THEN [Called(l, "disk") EXCEPT !.metrics.DiskPercent = t, !.metrics.DiskUsed = t, !.metrics.DiskTotal = t,
                                   !.systemMetrics = @ \o <<MetricRow("disk", t), MetricRow("disk_used", t), MetricRow("disk_total", t)>>]
    ELSE Called(l, "disk")

\* The rates collect() computes from the stored previous counters.
NetworkRates(curIn, curOut, lastIn, lastOut, lastTime, nowT) ==
    IF lastTime = 0
    THEN <<ZeroRat, ZeroRat>>
    ELSE IF nowT - lastTime > 0
         THEN <<NetRate(curIn, lastIn, nowT - lastTime), NetRate(curOut, lastOut, nowT - lastTime)>>
         ELSE <<ZeroRat, ZeroRat>>

SampleNetwork(l, F, curIn, curOut, lastIn, lastOut, lastTime, nowT) ==
    IF "net" \notin F
    THEN LET r == NetworkRates(curIn, curOut, lastIn, lastOut, lastTime, nowT)
         IN  [Called(l, "net") EXCEPT !.metrics.NetworkIn = r[1], !.metrics.NetworkOut = r[2],
                                      !.systemMetrics = @ \o <<MetricRow("network_in_rate", r[1]), MetricRow("network_out_rate", r[2])>>]
    ELSE Called(l, "net")

SampleUptime(l, F, t) ==
    IF "uptime" \notin F
    THEN [Called(l, "uptime") EXCEPT !.metrics.Uptime = UptimeReading(t)]
    ELSE Called(l, "uptime")

\* A collect() without the follow-up ping: a failed size query means "not
\* connected".
SampleDatabaseNoPing(l, F, t) ==
    IF "dbsize" \notin F
    THEN [Called(l, "dbsize") EXCEPT !.metrics.DatabaseSize = t, !.metrics.DatabaseConnected = TRUE,
                                     !.systemMetrics = Append(@, MetricRow("database_size", t))]
    ELSE [Called(Called(l, "dbsize"), "dbping") EXCEPT !.metrics.DatabaseConnected = FALSE]

\* collector.go:174-190.
SampleDatabase(l, F, t) ==
    IF "dbsize" \notin F
    THEN [Called(l, "dbsize") EXCEPT !.metrics.DatabaseSize = t, !.metrics.DatabaseConnected = TRUE,
                                     !.systemMetrics = Append(@, MetricRow("database_size", t))]
    ELSE [Called(Called(l, "dbsize"), "dbping") EXCEPT !.metrics.DatabaseConnected = ("dbping" \notin F)]

SampleHAProxy(l, F, backends) ==
    IF "haproxy" \notin F
    THEN [Called(l, "haproxy") EXCEPT !.metrics.HAProxyConnected = TRUE, !.stats = backends,
                                      !.serviceStatuses = @ \o [i \in 1..Len(backends) |-> HaproxyRow(backends[i])]]
    ELSE [Called(l, "haproxy") EXCEPT !.metrics.HAProxyConnected = FALSE]

\* collector.go:67-209: everything collect() does before the container runtime.
SampleAll(t, F, backends, curIn, curOut, lastIn, lastOut, lastTime, nowT) ==
    LET l1 == SampleCPU(FreshLoc(t), F, t)
        l2 == SampleMemory(l1, F, t)
        l3 == SampleDisk(l2, F, t)
        l4 == SampleNetwork(l3, F, curIn, curOut, lastIn, lastOut, lastTime, nowT)
        l5 == SampleUptime(l4, F, t)
        l6 == SampleDatabase(l5, F, t)
    IN  SampleHAProxy(l6, F, backends)

\* History of the network counters: "cur" is the last successful sample of
\* net.IOCounters, "prev" the one before it; ok is FALSE while there is none.
NoSample == [ok |-> FALSE, in |-> 0, out |-> 0, time |-> 0]

NoNetHist == [prev |-> NoSample, cur |-> NoSample]

Sampled(h, curIn, curOut, t) == [prev |-> h.cur, cur |-> [ok |-> TRUE, in |-> curIn, out |-> curOut, time |-> t]]

\* A ticker whose channel keeps every tick until it is received.
TickerFireQueued ==
    /\ cpc # "stopped"
    /\ tickerC <= MaxMissed
    /\ tickerC' = tickerC + 1
    /\ UNCHANGED <<cpc, tick, fail, loc, current, dockerStatus, lastNetworkIn, lastNetworkOut, lastCollectTime, now, dockerClient, ctxDone, bulkCalls, published, missed, netHist, mu, dbRows, dbOpen, bulkErrs>>

\* collector.go:51 and 59: the ticker's channel holds one tick; the runtime
\* puts a tick into it when it is empty ...
TickerFire ==
    /\ cpc # "stopped"
    /\ tickerC = 0
    /\ tickerC' = 1
    /\ UNCHANGED <<cpc, tick, fail, loc, current, dockerStatus, lastNetworkIn, lastNetworkOut, lastCollectTime, now, dockerClient, ctxDone, bulkCalls, published, missed, netHist, mu, dbRows, dbOpen, bulkErrs>>

\* ... and drops the tick when the channel still holds one (Start is inside
\* collect()); "missed" counts the dropped ticks.
TickerDrop ==
    /\ cpc # "stopped"
    /\ tickerC >= 1
    /\ missed < MaxMissed
    /\ missed' = missed + 1
    /\ UNCHANGED <<cpc, tick, fail, loc, current, dockerStatus, lastNetworkIn, lastNetworkOut, lastCollectTime, now, dockerClient, ctxDone, bulkCalls, published, tickerC, netHist, mu, dbRows, dbOpen, bulkErrs>>

\* collector.go:175 and 187: on a closed store GetDatabaseSize and Ping fail.
ClosedStoreFails == IF dbOpen THEN {} ELSE {"dbsize", "dbping"}

\* collector.go:54-60: the first collect() is called directly, every later one
\* takes a tick from the ticker's channel.
CollectSample(FailSets, BackendInputs, Counters, Dts) ==
    /\ cpc = "idle"
    /\ tick < MaxTicks
    /\ tick = 0 \/ tickerC >= 1
    /\ tickerC' = IF tick = 0 THEN tickerC ELSE tickerC - 1
    /\ \E F0 \in FailSets, backends \in BackendInputs, curIn \in Counters, curOut \in Counters, dt \in Dts :
         LET F == F0 \cup ClosedStoreFails
         IN  /\ tick' = tick + 1
             /\ now' = now + dt
             /\ fail' = F
             /\ loc' = SampleAll(tick + 1, F, backends, curIn, curOut, lastNetworkIn, lastNetworkOut, lastCollectTime, now + dt)
             /\ lastNetworkIn' = IF "net" \notin F THEN curIn ELSE lastNetworkIn
             /\ lastNetworkOut' = IF "net" \notin F THEN curOut ELSE lastNetworkOut
             /\ netHist' = IF "net" \notin F THEN Sampled(netHist, curIn, curOut, now + dt) ELSE netHist
    /\ cpc' = "docker"
    /\ UNCHANGED <<current, dockerStatus, lastCollectTime, dockerClient, ctxDone, bulkCalls, published, missed, mu, dbRows, dbOpen, bulkErrs>>

\* A collectDockerStats that truncates the stored slice and appends to it:
\* the backing array is reused while it is large enough.
CollectDockerInPlace(ContainerInputs) ==
    /\ cpc = "docker"
    /\ IF ~dockerClient
       THEN /\ loc' = [loc EXCEPT !.metrics.DockerConnected = FALSE]
            /\ UNCHANGED <<current, dockerStatus>>
       ELSE IF "docker" \in fail
       THEN /\ mu = "unlocked"
            /\ current' = [current EXCEPT !.DockerConnected = FALSE]
            /\ loc' = [Called(loc, "docker") EXCEPT !.metrics.DockerConnected = TRUE]
            /\ UNCHANGED dockerStatus
       ELSE \E containers \in ContainerInputs :
            LET statuses == [i \in 1..Len(containers) |-> ContainerStatus(containers[i])]
            IN  /\ mu = "unlocked"
                /\ dockerStatus' = [tick |-> tick, arr |-> IF dockerStatus.arr # 0 /\ Len(statuses) <= Len(dockerStatus.list) THEN dockerStatus.arr ELSE tick, list |-> statuses]
                /\ loc' = [Called(loc, "docker") EXCEPT !.metrics.DockerConnected = TRUE, !.serviceStatuses = @ \o [i \in 1..Len(statuses) |-> DockerRow(statuses[i])]]
                /\ UNCHANGED current
    /\ cpc' = "publish"
    /\ UNCHANGED <<tick, fail, lastNetworkIn, lastNetworkOut, lastCollectTime, now, dockerClient, ctxDone, bulkCalls, published, tickerC, missed, netHist, mu, dbRows, dbOpen, bulkErrs>>

\* A collect() that calls the container runtime without looking at the client.
CollectDockerUnchecked(ContainerInputs) ==
    /\ cpc = "docker"
    /\ IF FALSE
       THEN /\ loc' = [loc EXCEPT !.metrics.DockerConnected = FALSE]
            /\ UNCHANGED <<current, dockerStatus>>
       ELSE IF "docker" \in fail
       THEN /\ mu = "unlocked"
            /\ current' = [current EXCEPT !.DockerConnected = FALSE]
            /\ loc' = [Called(loc, "docker") EXCEPT !.metrics.DockerConnected = TRUE]
            /\ UNCHANGED dockerStatus
       ELSE \E containers \in ContainerInputs :
            LET statuses == [i \in 1..Len(containers) |-> ContainerStatus(containers[i])]
            IN  /\ mu = "unlocked"
                /\ dockerStatus' = [tick |-> tick, arr |-> tick, list |-> statuses]
                /\ loc' = [Called(loc, "docker") EXCEPT !.metrics.DockerConnected = TRUE, !.serviceStatuses = @ \o [i \in 1..Len(statuses) |-> DockerRow(statuses[i])]]
                /\ UNCHANGED current
    /\ cpc' = "publish"
    /\ UNCHANGED <<tick, fail, lastNetworkIn, lastNetworkOut, lastCollectTime, now, dockerClient, ctxDone, bulkCalls, published, tickerC, missed, netHist, mu, dbRows, dbOpen, bulkErrs>>

\* collector.go:211-217 with collectDockerStats (235-295).  The list is built
\* in a slice made by this call (246), whose backing array "arr" is new, and
\* the slice is stored under the lock (292-294).
CollectDocker(ContainerInputs) ==
    /\ cpc = "docker"
    /\ IF ~dockerClient
       THEN /\ loc' = [loc EXCEPT !.metrics.DockerConnected = FALSE]
            /\ UNCHANGED <<current, dockerStatus>>
       ELSE IF "docker" \in fail
       THEN /\ mu = "unlocked"
            /\ current' = [current EXCEPT !.DockerConnected = FALSE]
            /\ loc' = [Called(loc, "docker") EXCEPT !.metrics.DockerConnected = TRUE]
            /\ UNCHANGED dockerStatus
       ELSE \E containers \in ContainerInputs :
            LET statuses == [i \in 1..Len(containers) |-> ContainerStatus(containers[i])]
            IN  /\ mu = "unlocked"
                /\ dockerStatus' = [tick |-> tick, arr |-> tick, list |-> statuses]
                /\ loc' = [Called(loc, "docker") EXCEPT !.metrics.DockerConnected = TRUE, !.serviceStatuses = @ \o [i \in 1..Len(statuses) |-> DockerRow(statuses[i])]]
                /\ UNCHANGED current
    /\ cpc' = "publish"
    /\ UNCHANGED <<tick, fail, lastNetworkIn, lastNetworkOut, lastCollectTime, now, dockerClient, ctxDone, bulkCalls, published, tickerC, missed, netHist, mu, dbRows, dbOpen, bulkErrs>>

\* collector.go:219-222: the two host pings.
Pinged(l, F) ==
    [Called(Called(l, "pi5"), "pi52") EXCEPT !.metrics.Pi5Connected = ("pi5" \notin F), !.metrics.Pi52Connected = ("pi52" \notin F)]

\* A collect() that gives up on the tick when HAProxy could not be reached.
CollectPublishUnlessFailed(Dps) ==
    /\ cpc = "publish"
    /\ mu = "unlocked"
    /\ \E dp \in Dps :
         /\ now' = now + dp
         /\ lastCollectTime' = IF "haproxy" \in fail THEN lastCollectTime ELSE now + dp
    /\ loc' = Pinged(loc, fail)
    /\ current' = IF "haproxy" \in fail THEN current ELSE Pinged(loc, fail).metrics
    /\ published' = published \cup {<<current'.tick, dockerStatus.tick>>}
    /\ mu' = "unlocked"
    /\ cpc' = "insert"
    /\ UNCHANGED <<tick, fail, dockerStatus, lastNetworkIn, lastNetworkOut, dockerClient, ctxDone, bulkCalls, tickerC, missed, netHist, dbRows, dbOpen, bulkErrs>>

\* A collect() that unlocks only after its batch write (a deferred Unlock).
CollectPublishHoldsLock(Dps) ==
    /\ cpc = "publish"
    /\ mu = "unlocked"
    /\ \E dp \in Dps :
         /\ now' = now + dp
         /\ lastCollectTime' = now + dp
    /\ loc' = Pinged(loc, fail)
    /\ current' = Pinged(loc, fail).metrics
    /\ published' = published \cup {<<tick, dockerStatus.tick>>}
    /\ mu' = "write"
    /\ cpc' = "insert"
    /\ UNCHANGED <<tick, fail, dockerStatus, lastNetworkIn, lastNetworkOut, dockerClient, ctxDone, bulkCalls, tickerC, missed, netHist, dbRows, dbOpen, bulkErrs>>

\* A collect() that drops its snapshot when the context is already cancelled.
CollectPublishUnlessCancelled(Dps) ==
    /\ cpc = "publish"
    /\ mu = "unlocked"
    /\ \E dp \in Dps :
         /\ now' = now + dp
         /\ lastCollectTime' = now + dp
    /\ loc' = Pinged(loc, fail)
    /\ current' = IF ctxDone THEN current ELSE Pinged(loc, fail).metrics
    /\ published' = published \cup {<<current'.tick, dockerStatus.tick>>}
    /\ mu' = "unlocked"
    /\ cpc' = "insert"
    /\ UNCHANGED <<tick, fail, dockerStatus, lastNetworkIn, lastNetworkOut, dockerClient, ctxDone, bulkCalls, tickerC, missed, netHist, dbRows, dbOpen, bulkErrs>>

\* collector.go:219-227: pings, then the swap under the write lock.
CollectPublish(Dps) ==
    /\ cpc = "publish"
    /\ mu = "unlocked"
    /\ \E dp \in Dps :
         /\ now' = now + dp
         /\ lastCollectTime' = now + dp
    /\ loc' = Pinged(loc, fail)
    /\ current' = Pinged(loc, fail).metrics
    /\ published' = published \cup {<<tick, dockerStatus.tick>>}
    /\ mu' = "unlocked"
    /\ cpc' = "insert"
    /\ UNCHANGED <<tick, fail, dockerStatus, lastNetworkIn, lastNetworkOut, dockerClient, ctxDone, bulkCalls, tickerC, missed, netHist, dbRows, dbOpen, bulkErrs>>

\* A collect() that ends the process when the batch write fails (log.Fatalf).
CollectBulkInsertFatal(Outcomes) ==
    /\ cpc = "insert"
    /\ \E o \in (IF dbOpen THEN Outcomes ELSE {BeginFails}) :
         LET batch == BatchRows(loc.systemMetrics, loc.serviceStatuses, bulkCalls + 1, now)
             res == BulkInsert(dbRows, batch, o)
         IN  /\ o.stage = "insert" => o.done < Len(batch)
             /\ dbRows' = res.rows
             /\ bulkErrs' = IF res.err THEN bulkErrs + 1 ELSE bulkErrs
             /\ cpc' = IF res.err THEN "stopped" ELSE "idle"
    /\ bulkCalls' = bulkCalls + 1
    /\ loc' = NoLoc
    /\ UNCHANGED <<tick, fail, current, dockerStatus, lastNetworkIn, lastNetworkOut, lastCollectTime, now, dockerClient, ctxDone, published, tickerC, missed, netHist, mu, dbOpen>>

\* collector.go:229-233: one BulkInsert call; an error is only logged.  On a
\* closed store the call fails at Begin.
CollectBulkInsert(Outcomes) ==
    /\ cpc = "insert"
    /\ \E o \in (IF dbOpen THEN Outcomes ELSE {BeginFails}) :
         LET batch == BatchRows(loc.systemMetrics, loc.serviceStatuses, bulkCalls + 1, now)
             res == BulkInsert(dbRows, batch, o)
         IN  /\ o.stage = "insert" => o.done < Len(batch)
             /\ dbRows' = res.rows
             /\ bulkErrs' = IF res.err THEN bulkErrs + 1 ELSE bulkErrs
    /\ bulkCalls' = bulkCalls + 1
    /\ cpc' = "idle"
    /\ loc' = NoLoc
    /\ UNCHANGED <<tick, fail, current, dockerStatus, lastNetworkIn, lastNetworkOut, lastCollectTime, now, dockerClient, ctxDone, published, tickerC, missed, netHist, mu, dbOpen>>

\* The top-level context is cancelled.
Cancel ==
    /\ ~ctxDone
    /\ ctxDone' = TRUE
    /\ UNCHANGED <<cpc, tick, fail, loc, current, dockerStatus, lastNetworkIn, lastNetworkOut, lastCollectTime, now, dockerClient, bulkCalls, published, tickerC, missed, netHist, mu, dbRows, dbOpen, bulkErrs>>

\* collector.go:57-64: Start returns once the context is done (after the
\* initial collection).
StartReturn ==
    /\ cpc = "idle"
    /\ tick >= 1
    /\ ctxDone
    /\ cpc' = "stopped"
    /\ UNCHANGED <<tick, fail, loc, current, dockerStatus, lastNetworkIn, lastNetworkOut, lastCollectTime, now, dockerClient, ctxDone, bulkCalls, published, tickerC, missed, netHist, mu, dbRows, dbOpen, bulkErrs>>

\* main (docker-compose.yml:86 and 96): main returns after the signal and
\* srv.Shutdown; its deferred calls run last-in first-out, cancel() and then
\* db.Close(), and neither waits for a goroutine.
DBClose ==
    /\ ctxDone
    /\ dbOpen
    /\ dbOpen' = FALSE
    /\ UNCHANGED <<cpc, tick, fail, loc, current, dockerStatus, lastNetworkIn, lastNetworkOut, lastCollectTime, now, dockerClient, ctxDone, bulkCalls, published, tickerC, missed, netHist, mu, dbRows, bulkErrs>>

\* db.go:223-243: one iteration of the cleanup goroutine NewDB started; the
\* DELETEs on the tables in "failed" fail (all of them on a closed store).
CleanupSweep(FailSets) ==
    /\ \E failed \in FailSets :
         dbRows' = cleanupOldData(dbRows, now - Retention, IF dbOpen THEN failed ELSE Tables)
    /\ UNCHANGED <<cpc, tick, fail, loc, current, dockerStatus, lastNetworkIn, lastNetworkOut, lastCollectTime, now, dockerClient, ctxDone, bulkCalls, published, tickerC, missed, netHist, mu, dbOpen, bulkErrs>>

CollectorInit ==
    /\ cpc = "idle"
    /\ tick = 0
    /\ fail = {}
    /\ loc = NoLoc
    /\ current = ZeroMetrics
    /\ dockerStatus = NilDockerStatus
    /\ lastNetworkIn = 0
    /\ lastNetworkOut = 0
    /\ lastCollectTime = 0
    /\ now = 0
    /\ dockerClient \in BOOLEAN
    /\ ctxDone = FALSE
    /\ bulkCalls = 0
    /\ published = {<<0, 0>>}
    /\ tickerC = 0
    /\ missed = 0
    /\ netHist = NoNetHist
    /\ mu = "unlocked"
    /\ dbRows = {}
    /\ dbOpen = TRUE
    /\ bulkErrs = 0

\* ------------------------------------------------------------ web server
\* One SSE connection per client id; a client's channel is named by its id.
Clients == 1..MaxClients

VARIABLES sseMutex, sseClients, chClosed, hpc, ctxc, gpc, gst, connSnap, bpc, bst, bTodo, bRound, bSent, bDropped, apc, ast, panicked

serverVars == <<sseMutex, sseClients, chClosed, hpc, ctxc, gpc, gst, connSnap, bpc, bst, bTodo, bRound, bSent, bDropped, apc, ast, panicked>>

clientVars == <<hpc>>

\* A call of one of the pure functions: its arguments and its result.
VARIABLES input, output

pureVars == <<input, output>>

vars == <<collectorVars, serverVars, pureVars>>

None == [kind |-> "none"]

\* server.go:286-292: GetStats succeeded and GetCurrentMetrics was read.
HalfStatus(backends) == [kind |-> "half", backends |-> backends, metrics |-> current]

\* server.go:319-336: GetDockerStatus is read and the response is built.
FullStatus(half) == BuildStatus(half.backends, half.metrics, dockerStatus, now)

\* The handler of c is parked in its select with no case ready: it has not
\* been woken by ctx.Done() (a woken goroutine is off the channel's receive
\* queue, and a select entered with ctx.Done() ready never parks).
Receiving(c) == hpc[c] = "wait" /\ c \notin ctxc

\* A send that waits for the receiver (a plain "ch <- event" without the
\* select's default case).
BlockingSend(c, ev) ==
    IF c \in chClosed
    THEN /\ panicked' = TRUE
         /\ UNCHANGED clientVars
    ELSE /\ Receiving(c)
         /\ hpc' = [hpc EXCEPT ![c] = "write"]
         /\ UNCHANGED panicked

\* A non-blocking send on the unbuffered channel of client c
\* (select { case ch <- event: default: }): it panics on a closed channel, is
\* received when the handler is parked in its select, and is dropped otherwise.
TrySend(c, ev) ==
    IF c \in chClosed
    THEN /\ panicked' = TRUE
         /\ UNCHANGED clientVars
    ELSE IF Receiving(c)
    THEN /\ hpc' = [hpc EXCEPT ![c] = "write"]
         /\ UNCHANGED panicked
    ELSE UNCHANGED <<hpc, panicked>>

\* ---- handleSSE (server.go:159-255)
\* server.go:166-210: make the channel, register it under the lock, start the
\* catch-up goroutine.
SSERegister(c) ==
    /\ hpc[c] = "new"
    /\ sseMutex = "unlocked"
    /\ sseClients' = sseClients \cup {c}
    /\ hpc' = [hpc EXCEPT ![c] = "registered"]
    /\ gpc' = [gpc EXCEPT ![c] = "status"]
    /\ connSnap' = [connSnap EXCEPT ![c] = <<current.tick, dockerStatus.tick>>]
    /\ UNCHANGED <<sseMutex, chClosed, ctxc, gst, bpc, bst, bTodo, bRound, bSent, bDropped, apc, ast, panicked>>

\* server.go:220-221: c.Stream calls the step function, which blocks in select.
SSEEnterSelect(c) ==
    /\ hpc[c] = "registered"
    /\ hpc' = [hpc EXCEPT ![c] = "wait"]
    /\ UNCHANGED <<sseMutex, sseClients, chClosed, ctxc, gpc, gst, connSnap, bpc, bst, bTodo, bRound, bSent, bDropped, apc, ast, panicked>>

\* server.go:222-250: the received event is written out; the step returns true
\* and Stream calls it again.
SSEWrite(c) ==
    /\ hpc[c] = "write"
    /\ hpc' = [hpc EXCEPT ![c] = "wait"]
    /\ UNCHANGED <<sseMutex, sseClients, chClosed, ctxc, gpc, gst, connSnap, bpc, bst, bTodo, bRound, bSent, bDropped, apc, ast, panicked>>

\* The client's transport closes: its request context is done.
ClientCancel(c) ==
    /\ hpc[c] \in {"registered", "wait", "write"}
    /\ c \notin ctxc
    /\ ctxc' = ctxc \cup {c}
    /\ UNCHANGED <<sseMutex, sseClients, chClosed, hpc, gpc, gst, connSnap, bpc, bst, bTodo, bRound, bSent, bDropped, apc, ast, panicked>>

\* A deferred function that closes the channel but leaves it in the registry.
SSEUnregisterKeepsQueue(c) ==
    /\ hpc[c] = "wait"
    /\ c \in ctxc
    /\ sseMutex = "unlocked"
    /\ hpc' = [hpc EXCEPT ![c] = "closing"]
    /\ UNCHANGED <<sseMutex, sseClients, chClosed, ctxc, gpc, gst, connSnap, bpc, bst, bTodo, bRound, bSent, bDropped, apc, ast, panicked>>

\* A deferred function that closes the channel before it deletes it.
SSEUnregisterClosesFirst(c) ==
    /\ hpc[c] = "wait"
    /\ c \in ctxc
    /\ sseMutex = "unlocked"
    /\ chClosed' = chClosed \cup {c}
    /\ sseClients' = sseClients \ {c}
    /\ hpc' = [hpc EXCEPT ![c] = "closing"]
    /\ UNCHANGED <<sseMutex, ctxc, gpc, gst, connSnap, bpc, bst, bTodo, bRound, bSent, bDropped, apc, ast, panicked>>

\* server.go:251-252 and 212-216: the select takes ctx.Done(), Stream
\* returns, the deferred function deletes the channel under the lock.
SSEUnregister(c) ==
    /\ hpc[c] = "wait"
    /\ c \in ctxc
    /\ sseMutex = "unlocked"
    /\ sseClients' = sseClients \ {c}
    /\ hpc' = [hpc EXCEPT ![c] = "closing"]
    /\ UNCHANGED <<sseMutex, chClosed, ctxc, gpc, gst, connSnap, bpc, bst, bTodo, bRound, bSent, bDropped, apc, ast, panicked>>

\* server.go:217: close(clientChan).
SSEClose(c) ==
    /\ hpc[c] = "closing"
    /\ chClosed' = chClosed \cup {c}
    /\ hpc' = [hpc EXCEPT ![c] = "closed"]
    /\ UNCHANGED <<sseMutex, sseClients, ctxc, gpc, gst, connSnap, bpc, bst, bTodo, bRound, bSent, bDropped, apc, ast, panicked>>

\* ---- the catch-up goroutine of handleSSE (server.go:176-210)
\* server.go:177 with 286-292: GetStats, then GetCurrentMetrics; on an error
\* the goroutine ends without sending.
CatchUpStatus(c, BackendInputs) ==
    /\ gpc[c] = "status"
    /\ \/ /\ gpc' = [gpc EXCEPT ![c] = "done"]
          /\ connSnap' = [connSnap EXCEPT ![c] = <<0, 0>>]
          /\ UNCHANGED gst
       \/ \E backends \in BackendInputs :
             /\ mu = "unlocked"
             /\ gst' = [gst EXCEPT ![c] = HalfStatus(backends)]
             /\ gpc' = [gpc EXCEPT ![c] = "docker"]
             /\ UNCHANGED connSnap
    /\ UNCHANGED <<sseMutex, sseClients, chClosed, hpc, ctxc, bpc, bst, bTodo, bRound, bSent, bDropped, apc, ast, panicked>>

\* server.go:319-336 and 179-201: GetDockerStatus, then the event is built.
CatchUpBuild(c) ==
    /\ gpc[c] = "docker"
    /\ mu = "unlocked"
    /\ gst' = [gst EXCEPT ![c] = BuildEvent(FullStatus(gst[c]), now, "catchup")]
    /\ gpc' = [gpc EXCEPT ![c] = "send"]
    /\ UNCHANGED <<sseMutex, sseClients, chClosed, hpc, ctxc, connSnap, bpc, bst, bTodo, bRound, bSent, bDropped, apc, ast, panicked>>

\* server.go:203-208.
CatchUpSend(c) ==
    /\ gpc[c] = "send"
    /\ TrySend(c, gst[c])
    /\ gpc' = [gpc EXCEPT ![c] = "done"]
    /\ gst' = [gst EXCEPT ![c] = None]
    /\ connSnap' = [connSnap EXCEPT ![c] = <<0, 0>>]
    /\ UNCHANGED <<sseMutex, sseClients, chClosed, ctxc, bpc, bst, bTodo, bRound, bSent, bDropped, apc, ast>>

\* ---- broadcastUpdates (server.go:339-397)
\* server.go:343-347 with 286-292: a ticker tick; GetStats fails and the loop
\* continues, or GetCurrentMetrics is read.
BroadcastTick(BackendInputs) ==
    /\ bpc = "tick"
    /\ \/ /\ bpc' = "skip"
          /\ UNCHANGED bst
       \/ \E backends \in BackendInputs :
             /\ mu = "unlocked"
             /\ bst' = HalfStatus(backends)
             /\ bpc' = "docker"
    /\ UNCHANGED <<sseMutex, sseClients, chClosed, hpc, ctxc, gpc, gst, connSnap, bTodo, bRound, bSent, bDropped, apc, ast, panicked>>

\* server.go:345-347: "continue", back to waiting for the ticker.
BroadcastSkip ==
    /\ bpc = "skip"
    /\ bpc' = "tick"
    /\ UNCHANGED <<sseMutex, sseClients, chClosed, hpc, ctxc, gpc, gst, connSnap, bst, bTodo, bRound, bSent, bDropped, apc, ast, panicked>>

\* server.go:319-336 and 350-372.
BroadcastBuild ==
    /\ bpc = "docker"
    /\ mu = "unlocked"
    /\ bst' = BuildEvent(FullStatus(bst), now, "periodic")
    /\ bpc' = "copy"
    /\ UNCHANGED <<sseMutex, sseClients, chClosed, hpc, ctxc, gpc, gst, connSnap, bTodo, bRound, bSent, bDropped, apc, ast, panicked>>

\* A broadcast round that keeps the read lock through its send loop (a
\* deferred RUnlock).
BroadcastCopyHoldsLock ==
    /\ bpc = "copy"
    /\ sseMutex = "unlocked"
    /\ bTodo' = sseClients
    /\ bRound' = sseClients
    /\ sseMutex' = "read"
    /\ bpc' = "send"
    /\ UNCHANGED <<sseClients, chClosed, hpc, ctxc, gpc, gst, connSnap, bst, bSent, bDropped, apc, ast, panicked>>

\* server.go:375-381: the registry is copied under the read lock, which is
\* released before the first send.
BroadcastCopy ==
    /\ bpc = "copy"
    /\ sseMutex = "unlocked"
    /\ bTodo' = sseClients
    /\ bRound' = sseClients
    /\ sseMutex' = "unlocked"
    /\ bpc' = "send"
    /\ UNCHANGED <<sseClients, chClosed, hpc, ctxc, gpc, gst, connSnap, bst, bSent, bDropped, apc, ast, panicked>>

\* server.go:384-391: one iteration of the send loop (the copied list is in
\* map order, so any remaining client may be next).
BroadcastSend ==
    /\ bpc = "send"
    /\ \E c \in bTodo :
         /\ TrySend(c, bst)
         /\ bTodo' = bTodo \ {c}
         /\ bSent' = IF c \notin chClosed /\ Receiving(c) THEN bSent \cup {c} ELSE bSent
         /\ bDropped' = IF c \notin chClosed /\ ~Receiving(c) THEN bDropped \cup {c} ELSE bDropped
    /\ UNCHANGED <<sseMutex, sseClients, chClosed, ctxc, gpc, gst, connSnap, bpc, bst, bRound, apc, ast>>

\* server.go:393-396: the round is over, back to waiting for the ticker.
BroadcastDone ==
    /\ bpc = "send"
    /\ bTodo = {}
    /\ bpc' = "tick"
    /\ bst' = None
    /\ bRound' = {}
    /\ bSent' = {}
    /\ bDropped' = {}
    /\ UNCHANGED <<sseMutex, sseClients, chClosed, hpc, ctxc, gpc, gst, connSnap, bTodo, apc, ast, panicked>>

\* ---- handleAPIStatus (server.go:119-127)
\* server.go:120 with 286-292: GetStats fails, or GetCurrentMetrics is read.
APIStatus(BackendInputs) ==
    /\ apc = "idle"
    /\ \/ /\ ast' = [kind |-> "error"]
          /\ apc' = "respond"
       \/ \E backends \in BackendInputs :
             /\ mu = "unlocked"
             /\ ast' = HalfStatus(backends)
             /\ apc' = "docker"
    /\ UNCHANGED <<sseMutex, sseClients, chClosed, hpc, ctxc, gpc, gst, connSnap, bpc, bst, bTodo, bRound, bSent, bDropped, panicked>>

\* server.go:319-336.
APIBuild ==
    /\ apc = "docker"
    /\ mu = "unlocked"
    /\ ast' = [kind |-> "status", status |-> FullStatus(ast)]
    /\ apc' = "respond"
    /\ UNCHANGED <<sseMutex, sseClients, chClosed, hpc, ctxc, gpc, gst, connSnap, bpc, bst, bTodo, bRound, bSent, bDropped, panicked>>

\* server.go:121-126: 500 with the error, or 200 with the status.
APIRespond ==
    /\ apc = "respond"
    /\ apc' = "idle"
    /\ ast' = None
    /\ UNCHANGED <<sseMutex, sseClients, chClosed, hpc, ctxc, gpc, gst, connSnap, bpc, bst, bTodo, bRound, bSent, bDropped, panicked>>

ServerInit ==
    /\ sseMutex = "unlocked"
    /\ sseClients = {}
    /\ chClosed = {}
    /\ hpc = [c \in Clients |-> "new"]
    /\ ctxc = {}
    /\ gpc = [c \in Clients |-> "none"]
    /\ gst = [c \in Clients |-> None]
    /\ connSnap = [c \in Clients |-> <<0, 0>>]
    /\ bpc = "tick"
    /\ bst = None
    /\ bTodo = {}
    /\ bRound = {}
    /\ bSent = {}
    /\ bDropped = {}
    /\ apc = "idle"
    /\ ast = None
    /\ panicked = FALSE

NoCall == [fn |-> "none"]

\* The state after NewCollector and NewServer.
Init == CollectorInit /\ ServerInit /\ input = NoCall /\ output = NoCall

\* The store is down: every BulkInsert fails at Begin.
StoreDown == {BeginFails}

\* ------------------------------------- the collector alone, every adapter failing
\* Every collect() returns within its interval: the ticker fires while Start
\* waits in its select.  (Slow ticks and cancellation: SpecStart.)
BoundedFailSets == {F \in SUBSET Adapters : Cardinality(F) <= MaxFailures}

\* HAProxy reports two backends, "web" up and "app" down.
CollectBackendInputs == {<<BackendUp, [BackendDown EXCEPT !.Name = TrimSlash(NameApp)]>>}

CollectContainerInputs == {<<>>, <<ContainerHealthy>>, <<ContainerSick, ContainerExited>>}

CollectNext ==
    \/ CollectSample(BoundedFailSets, CollectBackendInputs, {0}, {1}) /\ UNCHANGED <<serverVars, pureVars>>
    \/ CollectDocker(CollectContainerInputs) /\ UNCHANGED <<serverVars, pureVars>>
    \/ CollectPublish({0}) /\ UNCHANGED <<serverVars, pureVars>>
    \/ CollectBulkInsert(StoreDown) /\ UNCHANGED <<serverVars, pureVars>>
    \/ cpc = "idle" /\ TickerFire /\ UNCHANGED <<serverVars, pureVars>>

SpecCollect == Init /\ [][CollectNext]_vars

\* ------------------------------------------------- interleaved processes
\* A panic in any goroutine ends the process: no step follows it.
ConcFailSets == {{}, {"docker"}}

ConcBackendInputs == {<<BackendUp>>}

ConcContainerInputs == {<<ContainerHealthy>>}

StatusBackendInputs == {<<BackendUp>>, <<BackendDown>>}

StatusContainerInputs == {<<ContainerHealthy>>, <<ContainerSick>>}

\* The collector with moving network counters (2 then 0 is a counter reset),
\* ticks that start 1 or 2 seconds after the last swap, and a swap 0 or 1
\* second after the network sample.
NetFailSets == {{}, {"net"}}

NetCounters == {0, 2}

NetDts == {1, 2}

NetDps == {0, 1}

NetNext ==
    \/ CollectSample(NetFailSets, ConcBackendInputs, NetCounters, NetDts) /\ UNCHANGED <<serverVars, pureVars>>
    \/ CollectDocker(ConcContainerInputs) /\ UNCHANGED <<serverVars, pureVars>>
    \/ CollectPublish(NetDps) /\ UNCHANGED <<serverVars, pureVars>>
    \/ CollectBulkInsert(StoreDown) /\ UNCHANGED <<serverVars, pureVars>>
    \/ TickerFire /\ UNCHANGED <<serverVars, pureVars>>

SpecNet == Init /\ [][NetNext]_vars

\* The collection loop with its ticker and the top-level context.
StartFailSets == {{}, {"haproxy"}}

StartNext ==
    \/ CollectSample(StartFailSets, ConcBackendInputs, {0}, {1}) /\ UNCHANGED <<serverVars, pureVars>>
    \/ CollectDocker(ConcContainerInputs) /\ UNCHANGED <<serverVars, pureVars>>
    \/ CollectPublish({0}) /\ UNCHANGED <<serverVars, pureVars>>
    \/ CollectBulkInsert(StoreDown) /\ UNCHANGED <<serverVars, pureVars>>
    \/ TickerFire /\ UNCHANGED <<serverVars, pureVars>>
    \/ TickerDrop /\ UNCHANGED <<serverVars, pureVars>>
    \/ Cancel /\ UNCHANGED <<serverVars, pureVars>>
    \/ StartReturn /\ UNCHANGED <<serverVars, pureVars>>

SpecStart == Init /\ [][StartNext]_vars

\* The goroutine of Start runs whenever it can: it makes its first collect(),
\* takes a tick that is waiting, and every collect() runs on to its return (it
\* waits for nothing but its own I/O).  The select of Start picks at random
\* among its ready cases, so it does not pass over ctx.Done() forever.
FairStart ==
    /\ SpecStart
    /\ WF_vars((CollectSample(StartFailSets, ConcBackendInputs, {0}, {1}) \/ CollectDocker(ConcContainerInputs) \/ CollectPublish({0}) \/ CollectBulkInsert(StoreDown)) /\ UNCHANGED <<serverVars, pureVars>>)
    /\ SF_vars(StartReturn /\ UNCHANGED <<serverVars, pureVars>>)

\* The collector beside status requests (GET /api/status).
StatusNext ==
    \/ CollectSample(ConcFailSets, ConcBackendInputs, {0}, {1}) /\ UNCHANGED <<serverVars, pureVars>>
    \/ CollectDocker(StatusContainerInputs) /\ UNCHANGED <<serverVars, pureVars>>
    \/ CollectPublish({0}) /\ UNCHANGED <<serverVars, pureVars>>
    \/ CollectBulkInsert(StoreDown) /\ UNCHANGED <<serverVars, pureVars>>
    \/ Cancel /\ UNCHANGED <<serverVars, pureVars>>
    \/ StartReturn /\ UNCHANGED <<serverVars, pureVars>>
    \/ TickerFire /\ UNCHANGED <<serverVars, pureVars>>
    \/ APIStatus(StatusBackendInputs) /\ UNCHANGED <<collectorVars, pureVars>>
    \/ APIBuild /\ UNCHANGED <<collectorVars, pureVars>>
    \/ APIRespond /\ UNCHANGED <<collectorVars, pureVars>>

SpecStatus == Init /\ [][StatusNext]_vars

\* The broadcaster and the SSE handlers with their catch-up goroutines, for
\* the connections in Conns.
SSEActions(Conns) ==
    \/ \E c \in Conns : ~panicked /\ SSERegister(c) /\ UNCHANGED <<collectorVars, pureVars>>
    \/ \E c \in Conns : ~panicked /\ SSEEnterSelect(c) /\ UNCHANGED <<collectorVars, pureVars>>
    \/ \E c \in Conns : ~panicked /\ SSEWrite(c) /\ UNCHANGED <<collectorVars, pureVars>>
    \/ \E c \in Conns : ~panicked /\ ClientCancel(c) /\ UNCHANGED <<collectorVars, pureVars>>
    \/ \E c \in Conns : ~panicked /\ SSEUnregister(c) /\ UNCHANGED <<collectorVars, pureVars>>
    \/ \E c \in Conns : ~panicked /\ SSEClose(c) /\ UNCHANGED <<collectorVars, pureVars>>
    \/ \E c \in Conns : ~panicked /\ CatchUpStatus(c, ConcBackendInputs) /\ UNCHANGED <<collectorVars, pureVars>>
    \/ \E c \in Conns : ~panicked /\ CatchUpBuild(c) /\ UNCHANGED <<collectorVars, pureVars>>
    \/ \E c \in Conns : ~panicked /\ CatchUpSend(c) /\ UNCHANGED <<collectorVars, pureVars>>
    \/ ~panicked /\ BroadcastTick(ConcBackendInputs) /\ UNCHANGED <<collectorVars, pureVars>>
    \/ ~panicked /\ BroadcastSkip /\ UNCHANGED <<collectorVars, pureVars>>
    \/ ~panicked /\ BroadcastBuild /\ UNCHANGED <<collectorVars, pureVars>>
    \/ ~panicked /\ BroadcastCopy /\ UNCHANGED <<collectorVars, pureVars>>
    \/ ~panicked /\ BroadcastSend /\ UNCHANGED <<collectorVars, pureVars>>
    \/ ~panicked /\ BroadcastDone /\ UNCHANGED <<collectorVars, pureVars>>

\* Up to MaxClients connections while the collector is inside its first
\* collect() (which blocks a second in cpu.Percent before it touches anything).
SSENext == SSEActions(Clients)

SpecSSE == Init /\ [][SSENext]_vars

\* One connection beside the running collector.
ConnectNext ==
    \/ ~panicked /\ CollectSample({{}}, ConcBackendInputs, {0}, {1}) /\ UNCHANGED <<serverVars, pureVars>>
    \/ ~panicked /\ CollectDocker(ConcContainerInputs) /\ UNCHANGED <<serverVars, pureVars>>
    \/ ~panicked /\ CollectPublish({0}) /\ UNCHANGED <<serverVars, pureVars>>
    \/ ~panicked /\ CollectBulkInsert(StoreDown) /\ UNCHANGED <<serverVars, pureVars>>
    \/ ~panicked /\ TickerFire /\ UNCHANGED <<serverVars, pureVars>>
    \/ SSEActions({1})

SpecConnect == Init /\ [][ConnectNext]_vars

\* The collector with a store that works or fails at any stage of the batch
\* write, ticks a second, 7 days, or 7 days and a second apart, and the cleanup
\* goroutine of the store, whose DELETEs fail on any of the tables.
StoreFailSets == {{}, {"haproxy"}}

StoreDts == {1, Retention, Retention + 1}

BulkOutcomes ==
    {NoFailure, BeginFails, [stage |-> "prepare", done |-> 0], [stage |-> "commit", done |-> 0]}
        \cup {[stage |-> "insert", done |-> k] : k \in 0..MaxInserted}

SweepFailSets == SUBSET Tables

StoreNext ==
    \/ CollectSample(StoreFailSets, ConcBackendInputs, {0}, StoreDts) /\ UNCHANGED <<serverVars, pureVars>>
    \/ CollectDocker(ConcContainerInputs) /\ UNCHANGED <<serverVars, pureVars>>
    \/ CollectPublish({0}) /\ UNCHANGED <<serverVars, pureVars>>
    \/ CollectBulkInsert(BulkOutcomes) /\ UNCHANGED <<serverVars, pureVars>>
    \/ cpc = "idle" /\ TickerFire /\ UNCHANGED <<serverVars, pureVars>>
    \/ CleanupSweep(SweepFailSets) /\ UNCHANGED <<serverVars, pureVars>>

SpecStore == Init /\ [][StoreNext]_vars

\* The whole process through its shutdown: the collector, the broadcaster and
\* one connection, the store, and main's deferred cancel() and db.Close().
ShutdownNext ==
    \/ ~panicked /\ CollectSample({{}}, ConcBackendInputs, {0}, {1}) /\ UNCHANGED <<serverVars, pureVars>>
    \/ ~panicked /\ CollectDocker(ConcContainerInputs) /\ UNCHANGED <<serverVars, pureVars>>
    \/ ~panicked /\ CollectPublish({0}) /\ UNCHANGED <<serverVars, pureVars>>
    \/ ~panicked /\ CollectBulkInsert({NoFailure}) /\ UNCHANGED <<serverVars, pureVars>>
    \/ ~panicked /\ TickerFire /\ UNCHANGED <<serverVars, pureVars>>
    \/ ~panicked /\ Cancel /\ UNCHANGED <<serverVars, pureVars>>
    \/ ~panicked /\ StartReturn /\ UNCHANGED <<serverVars, pureVars>>
    \/ ~panicked /\ DBClose /\ UNCHANGED <<serverVars, pureVars>>
    \/ SSEActions({1})

SpecShutdown == Init /\ [][ShutdownNext]_vars

\* ------------------------------------------------- calls of the pure functions
\* Durations in seconds: up to MaxDays days, with 0, 1 or 23 hours, 0, 1 or 59
\* minutes and 0, 1 or 30 seconds.
DurationInputs ==
    {d * 86400 + h * 3600 + m * 60 + sec : d \in 0..MaxDays, h \in {0, 1, 23}, m \in {0, 1, 59}, sec \in {0, 1, 30}}

\* Byte counts around the multiples of 1, 1024 and 1024^2.
ByteInputs ==
    {m * scale + e : m \in 1..MaxMantissa, scale \in {1, Unit, Unit * Unit}, e \in {-1, 0, 1, 51, 52, 512}}

\* Names of backends and containers: different ones, equal ones (a container
\* name loses its leading slash), and names that begin with the other
\* source's prefix.
KeyNames ==
    {NameWeb, NameApp, TrimSlash(NameApp), DockerPrefix \o TrimSlash(NameApp), HaproxyPrefix \o NameWeb}

\* server.go:72-77: the routes setupRoutes registers, all for GET (the static
\* file tree apart).
Routes ==
    [path \in {"/", "/api/status", "/api/metrics", "/events", "/health"} |->
        CASE path = "/" -> "handleDashboard"
          [] path = "/api/status" -> "handleAPIStatus"
          [] path = "/api/metrics" -> "handleAPIMetrics"
          [] path = "/events" -> "handleSSE"
          [] path = "/health" -> "handleHealth"]

\* The router's choice for a request: the handler registered for the exact
\* path, or gin's 404.
Route(method, path) ==
    IF method = "GET" /\ path \in DOMAIN Routes THEN Routes[path] ELSE "NotFound"

\* The paths of the documented endpoints and the one the dashboard connects to.
RequestPaths == {"/", "/api/status", "/api/metrics", "/api/events", "/events", "/health"}

\* An IsHealthy that looks only at the connection to HAProxy.
IsHealthyConnected(statsOk, backends) == statsOk

\* server.go:572-586: GetStats succeeded and no backend is inactive.
IsHealthy(statsOk, backends) ==
    statsOk /\ \A i \in 1..Len(backends) : backends[i].Active

\* server.go:257-282: the answer of GET /health.
handleHealth(pingOk, statsOk, backends) ==
    LET details == [database |-> IF pingOk THEN "healthy" ELSE "unhealthy",
                    haproxy |-> IF IsHealthy(statsOk, backends) THEN "healthy" ELSE "unhealthy"]
    IN  IF pingOk /\ IsHealthy(statsOk, backends)
        THEN [code |-> 200, status |-> "healthy", details |-> details]
        ELSE [code |-> 503, status |-> "unhealthy", details |-> details]

\* The store answers the ping or not, HAProxy answers or not, with no
\* backend, one or two, each UP, DOWN or in maintenance.
HealthBackends == {BackendUp, BackendDown, [BackendDown EXCEPT !.Status = "MAINT"]}

HealthInputs ==
    {[fn |-> "health", ping |-> p, stats |-> g, backends |-> bs] :
        p \in BOOLEAN, g \in BOOLEAN,
        bs \in {<<>>} \cup {<<b>> : b \in HealthBackends} \cup {<<a, b>> : a \in HealthBackends, b \in HealthBackends}}

\* What GetStats and GetDockerStatus return to getCurrentStatus: up to two
\* backends, up or down, their last change 0 seconds or longer ago, and no
\* container or one.
StatusBackends ==
    {BackendUp, BackendDown, [BackendUp EXCEPT !.LastChange = 0], [BackendDown EXCEPT !.LastChange = 0]}

StatusInputs ==
    {[fn |-> "status", backends |-> bs, docker |-> ds] :
        bs \in {<<>>} \cup {<<b>> : b \in StatusBackends} \cup {<<a, b>> : a \in {BackendUp, BackendDown}, b \in StatusBackends},
        ds \in {<<>>, <<ContainerStatus(ContainerHealthy)>>}}

\* A page load with a later connection to the event stream, for the inputs
\* of getCurrentStatus.
DashboardInputs ==
    {[fn |-> "dashboard", backends |-> i.backends, docker |-> i.docker] : i \in StatusInputs}

PureInputs ==
    {[fn |-> "formatDuration", arg |-> d] : d \in DurationInputs}
        \cup {[fn |-> "formatBytes", arg |-> b] : b \in ByteInputs}
        \cup {[fn |-> "latest", backend |-> b, container |-> c] : b \in KeyNames, c \in KeyNames}
        \cup {[fn |-> "route", method |-> m, path |-> q] : m \in {"GET", "POST"}, q \in RequestPaths}
        \cup StatusInputs
        \cup HealthInputs
        \cup DashboardInputs

PureInit == CollectorInit /\ ServerInit /\ input \in PureInputs /\ output = NoCall

\* collector.go:309-320 and server.go:414-425, both called with the same
\* time.Duration.
ApplyFormatDuration ==
    /\ input.fn = "formatDuration"
    /\ output = NoCall
    /\ output' = [fn |-> "formatDuration", res |-> webFormatDuration(input.arg), collector |-> formatDuration(input.arg)]
    /\ UNCHANGED input

\* server.go:399-412 and dashboard.templ:345-358, both called with the
\* float64 of the same byte count.
ApplyFormatBytes ==
    /\ input.fn = "formatBytes"
    /\ output = NoCall
    /\ output' = [fn |-> "formatBytes", res |-> formatBytes(Rat(input.arg, 1)), template |-> templatesFormatBytes(Rat(input.arg, 1))]
    /\ UNCHANGED input

\* One tick's service rows for a backend and a container (collector.go:192-205
\* and 281-289), written to the empty store, and the map
\* GetLatestServiceStatuses makes of them.
ApplyLatestStatuses ==
    /\ input.fn = "latest"
    /\ output = NoCall
    /\ LET b == [BackendUp EXCEPT !.Name = input.backend]
           c == [ContainerHealthy EXCEPT !.Names0 = input.container]
           batch == BatchRows(<<>>, <<HaproxyRow(b), DockerRow(ContainerStatus(c))>>, 1, 0)
       IN  output' = [fn |-> "latest", res |-> GetLatestServiceStatuses(BulkInsert({}, batch, NoFailure).rows)]
    /\ UNCHANGED input

\* A request reaches the router.
ApplyRoute ==
    /\ input.fn = "route"
    /\ output = NoCall
    /\ output' = [fn |-> "route", res |-> Route(input.method, input.path)]
    /\ UNCHANGED input

\* server.go:284-337 and 350-372: getCurrentStatus on the snapshot of tick 1
\* and the signals event made of its result.
ApplyGetCurrentStatus ==
    /\ input.fn = "status"
    /\ output = NoCall
    /\ LET m == [ZeroMetrics EXCEPT !.tick = 1, !.CPUPercent = 1, !.DatabaseSize = 1, !.Uptime = UptimeReading(1)]
           st == BuildStatus(input.backends, m, [tick |-> 1, arr |-> 1, list |-> input.docker], 1)
       IN  output' = [fn |-> "status", status |-> st, event |-> BuildEvent(st, 1, "periodic")]
    /\ UNCHANGED input

\* server.go:87-117 with dashboard.templ:59, server.go:176-201 and 350-372:
\* the page is rendered with the signals of buildSignals, and the same status
\* goes out as the catch-up event and as a periodic event.
ApplyHandleDashboard ==
    /\ input.fn = "dashboard"
    /\ output = NoCall
    /\ LET m == [ZeroMetrics EXCEPT !.tick = 1, !.CPUPercent = 1, !.DatabaseSize = 1, !.Uptime = UptimeReading(1)]
           st == BuildStatus(input.backends, m, [tick |-> 1, arr |-> 1, list |-> input.docker], 1)
       IN  output' = [fn |-> "dashboard", signals |-> buildSignals(DashboardData(st)),
                      catchup |-> BuildEvent(st, 1, "catchup"), periodic |-> BuildEvent(st, 1, "periodic")]
    /\ UNCHANGED input

\* A health check comes in.
ApplyHandleHealth ==
    /\ input.fn = "health"
    /\ output = NoCall
    /\ output' = [fn |-> "health", res |-> handleHealth(input.ping, input.stats, IF input.stats THEN input.backends ELSE <<>>)]
    /\ UNCHANGED input

PureNext ==
    \/ ApplyHandleDashboard /\ UNCHANGED <<collectorVars, serverVars>>
    \/ ApplyHandleHealth /\ UNCHANGED <<collectorVars, serverVars>>
    \/ ApplyGetCurrentStatus /\ UNCHANGED <<collectorVars, serverVars>>
    \/ ApplyRoute /\ UNCHANGED <<collectorVars, serverVars>>
    \/ ApplyFormatDuration /\ UNCHANGED <<collectorVars, serverVars>>
    \/ ApplyFormatBytes /\ UNCHANGED <<collectorVars, serverVars>>
    \/ ApplyLatestStatuses /\ UNCHANGED <<collectorVars, serverVars>>

SpecPure == PureInit /\ [][PureNext]_vars

\* ------------------------------------------------------- claims on collect()
\* The adapters a tick has to call: the ping of the store follows only a failed
\* size query, the container runtime is called only when a client exists.
ExpectedQueried(F) ==
    (Adapters \ (IF "dbsize" \in F THEN {} ELSE {"dbping"})) \ (IF dockerClient THEN {} ELSE {"docker"})

\* A tick has published: collect() is past the swap of c.current.
TickPublished == cpc \in {"insert", "idle"} /\ tick >= 1

\* C3: whenever an adapter fails during a tick, the snapshot that tick
\* publishes has that adapter's connectivity flag false (HAProxy, Docker,
\* store, both hosts).
C3_FailedAdapterFlagFalse ==
    TickPublished =>
        /\ ("haproxy" \in fail => ~current.HAProxyConnected)
        /\ (dockerClient /\ "docker" \in fail => ~current.DockerConnected)
        /\ ({"dbsize", "dbping"} \subseteq fail => ~current.DatabaseConnected)
        /\ ("pi5" \in fail => ~current.Pi5Connected)
        /\ ("pi52" \in fail => ~current.Pi52Connected)

\* C4: after a tick, every readable field that belongs to a failing adapter
\* is at its default (0 / false / empty) and holds nothing of an earlier tick.
C4_FailedFieldsAtDefault ==
    TickPublished =>
        /\ ("cpu" \in fail => current.CPUPercent = 0)
        /\ ("mem" \in fail => current.MemoryPercent = 0 /\ current.MemoryUsed = 0 /\ current.MemoryTotal = 0)
        /\ ("disk" \in fail => current.DiskPercent = 0 /\ current.DiskUsed = 0 /\ current.DiskTotal = 0)
        /\ ("net" \in fail => current.NetworkIn = ZeroRat /\ current.NetworkOut = ZeroRat)
        /\ ("uptime" \in fail => current.Uptime = 0)
        /\ ("dbsize" \in fail => current.DatabaseSize = 0)
        /\ ({"dbsize", "dbping"} \subseteq fail => ~current.DatabaseConnected)
        /\ ("haproxy" \in fail => ~current.HAProxyConnected)
        /\ ("pi5" \in fail => ~current.Pi5Connected)
        /\ ("pi52" \in fail => ~current.Pi52Connected)
        /\ (dockerClient /\ "docker" \in fail => ~current.DockerConnected /\ dockerStatus.list = <<>>)

\* C5: whatever adapters fail, the tick calls every remaining adapter,
\* publishes its own snapshot as c.current and makes exactly one BulkInsert
\* call.
C5_TickNeverAborted ==
    /\ (cpc = "insert" => /\ loc.queried = ExpectedQueried(fail)
                          /\ current = loc.metrics
                          /\ current.tick = tick
                          /\ bulkCalls = tick - 1)
    /\ (cpc = "idle" => current.tick = tick /\ bulkCalls = tick)

C5_Witness ==
    /\ cpc = "idle"
    /\ tick = 2
    /\ bulkCalls = 2
    /\ {"haproxy", "docker"} \subseteq fail
    /\ dockerClient

\* ------------------------------------------------ claims on the web server
\* The <<tick of the metrics, tick of the container list>> pairs held by the
\* readers that have finished getCurrentStatus.
SeenPairs ==
    (IF apc = "respond" /\ ast.kind = "status" THEN {<<ast.status.mtick, ast.status.dtick>>} ELSE {})
    \cup (IF bpc \in {"copy", "send"} THEN {<<bst.mtick, bst.dtick>>} ELSE {})
    \cup {<<gst[c].mtick, gst[c].dtick>> : c \in {d \in Clients : gpc[d] = "send"}}

\* C1: every status built by getCurrentStatus pairs metrics and a container
\* list that collect() left readable together at the end of one tick.
C1_ReaderSeesOneTick == SeenPairs \subseteq published

\* C2: no send is attempted on a closed client queue, so no goroutine panics.
C2_NoSendOnClosedQueue == ~panicked

\* C6: a connected client's catch-up goroutine ends only by handing its event
\* to the handler, no periodic update reaches the client before that, and the
\* event is built from the snapshot readable at connect time.
C6_ExactlyOneCatchUpFirst ==
    /\ [][\A c \in Clients :
            /\ (gpc[c] # "done" /\ gpc'[c] = "done") => (gpc[c] = "send" /\ hpc[c] = "wait" /\ hpc'[c] = "write")
            /\ (c \in bSent' /\ c \notin bSent) => gpc[c] = "done"]_vars
    /\ [](\A c \in Clients : gpc[c] = "send" => <<gst[c].mtick, gst[c].dtick>> = connSnap[c])

\* C7: no broadcast tick is given up: each one builds an update and goes on
\* to the delivery loop.
C7_EveryTickBroadcasts == bpc # "skip"

\* C8: a status request is answered with a status, never with an error.
C8_StatusNeverAnError == apc = "respond" => ast.kind = "status"

\* A broadcast round is over: its loop has run out, or the process has died.
RoundOver == bpc = "send" /\ (bTodo = {} \/ panicked)

\* C9: when a broadcast round is over, a send was attempted for every client
\* of the round whose queue is open: each was handed the update (it was
\* waiting) or lost just this one (it was not).
C9_RoundServesEveryClient ==
    RoundOver => (bRound \ chClosed \subseteq bSent \cup bDropped /\ bSent \cap bDropped = {})

\* The scheduler runs the broadcaster, every handler and every catch-up
\* goroutine that can take a step.
FairSSE ==
    /\ SpecSSE
    /\ WF_vars(~panicked /\ (BroadcastTick(ConcBackendInputs) \/ BroadcastSkip \/ BroadcastBuild \/ BroadcastCopy \/ BroadcastSend \/ BroadcastDone) /\ UNCHANGED <<collectorVars, pureVars>>)
    /\ \A c \in Clients : WF_vars(~panicked /\ (SSEEnterSelect(c) \/ SSEWrite(c) \/ SSEUnregister(c) \/ SSEClose(c)) /\ UNCHANGED <<collectorVars, pureVars>>)
    /\ \A c \in Clients : WF_vars(~panicked /\ (CatchUpStatus(c, ConcBackendInputs) \/ CatchUpBuild(c) \/ CatchUpSend(c)) /\ UNCHANGED <<collectorVars, pureVars>>)

\* C10: a registered client that a broadcast round dropped is later handed
\* a periodic update, unless it disconnects.
C10_NoUpdateStaleForever ==
    \A c \in Clients : (c \in bDropped /\ c \in sseClients) ~> (c \in bSent \/ c \notin sseClients)

\* -------------------------------------------------- claims on the goroutines
\* Both mutexes are free: between two steps no goroutine is inside a critical
\* section, so a goroutine that stands before Lock or RLock gets it.
LocksFree == mu = "unlocked" /\ sseMutex = "unlocked"

\* A goroutine that stands before a queue send can take that step.
SendsCanStep ==
    /\ \A c \in Clients : gpc[c] = "send" => ENABLED (CatchUpSend(c) /\ UNCHANGED collectorVars)
    /\ (bpc = "send" /\ bTodo # {}) => ENABLED (BroadcastSend /\ UNCHANGED collectorVars)

Deregistered(c) == hpc[c] \in {"closing", "closed"}

\* C12: once a client's queue is removed from the registry (and then closed),
\* the client is never again handed an update, its queue stays out of the
\* registry, and a broadcast round that copies the registry afterwards does
\* not include it.
C12_NoUpdateAfterDeregistration ==
    [][\A c \in Clients : Deregistered(c) =>
          /\ Deregistered(c)'
          /\ c \notin sseClients'
          /\ (bpc = "copy" /\ bpc' = "send") => c \notin bRound']_vars

\* Client 1 is gone and closed; a later round holds only client 2 and has
\* handed it the update.
C12_Witness ==
    /\ hpc[1] = "closed"
    /\ 1 \in chClosed
    /\ bpc = "send"
    /\ bRound = {2}
    /\ 2 \in bSent

\* The snapshots GetCurrentMetrics has returned to the readers that are
\* inside getCurrentStatus.
MetricsRead ==
    (IF apc = "docker" THEN {ast.metrics} ELSE {})
    \cup (IF bpc = "docker" THEN {bst.metrics} ELSE {})
    \cup {gst[c].metrics : c \in {d \in Clients : gpc[d] = "docker"}}

\* C13: every snapshot GetCurrentMetrics returns to the status API, the
\* catch-up sender or the broadcaster was stored by a completed collection
\* tick; none is the zero-valued initial state.
C13_FirstReaderSeesATick == \A m \in MetricsRead : m.tick >= 1 /\ m # ZeroMetrics

\* ---------------------------------------------------------- claims on Start
\* collect() is between its first adapter call and its return.
InFlight == cpc \in {"docker", "publish", "insert"}

\* C14: collection ticks never overlap and missed ticks are not queued: a
\* collect() starts only after the previous one has returned, every collect()
\* after the first takes one tick out of the ticker's channel, and that
\* channel never holds more than one tick however many intervals a collect()
\* has missed.
C14_NoOverlapNoQueueing ==
    /\ [](tickerC <= 1)
    /\ [][tick' # tick =>
            /\ tick' = tick + 1
            /\ ~InFlight /\ bulkCalls = tick
            /\ tick >= 1 => (tickerC >= 1 /\ tickerC' = tickerC - 1)]_vars

\* The first collect() outlasted MaxMissed further intervals; the second has
\* run as the one catch-up tick and no tick is pending after it.
C14_Witness ==
    /\ missed = MaxMissed
    /\ tick = 2
    /\ cpc = "idle"
    /\ bulkCalls = 2
    /\ tickerC = 0

\* C15: after the top-level context is cancelled, a collect() in flight still
\* publishes its snapshot, Start returns, and once it has returned no
\* collection tick starts.
C15_CancelStopsTheLoop ==
    /\ \A t \in 1..MaxTicks : (ctxDone /\ InFlight /\ tick = t) ~> (cpc = "idle" /\ current.tick = t /\ bulkCalls = t)
    /\ ctxDone ~> (cpc = "stopped")
    /\ [][cpc = "stopped" => (cpc' = "stopped" /\ tick' = tick /\ current' = current)]_vars

\* Start has returned after the first collect() although a tick is waiting in
\* the ticker's channel.
C15_Witness ==
    /\ cpc = "stopped"
    /\ ctxDone
    /\ tick = 1
    /\ tickerC = 1
    /\ current.tick = 1
    /\ bulkCalls = 1

\* C16: once a connected client's request context is cancelled, its handler
\* leaves the delivery loop, its queue is removed from the registry and
\* closed, and a closed queue is never closed again.
C16_CancelLeadsToDeregistration ==
    /\ \A c \in Clients : (c \in ctxc) ~> (c \notin sseClients /\ c \in chClosed)
    /\ [][\A c \in Clients : c \in chClosed => (c \in chClosed' /\ hpc'[c] = "closed")]_vars

\* ------------------------------------------------ claims on the network rate
\* Two fractions are the same number (denominators positive).
RatEq(a, b) == a.n * b.d = b.n * a.d

\* The tick that has just published sampled the network counters.
NetTickPublished == TickPublished /\ "net" \notin fail

\* C17: in every published snapshot NetworkIn and NetworkOut are >= 0,
\* whatever the counters did (a counter that went down included).
C17_RateNeverNegative ==
    /\ current.NetworkIn.n >= 0 /\ current.NetworkIn.d > 0
    /\ current.NetworkOut.n >= 0 /\ current.NetworkOut.d > 0

\* The inbound counter went down between two samples (2 then 0) and the rate
\* was clamped, while the outbound counter rose and has a positive rate.
C17_Witness ==
    /\ NetTickPublished
    /\ netHist.prev.ok
    /\ netHist.cur.in < netHist.prev.in
    /\ netHist.cur.out > netHist.prev.out
    /\ current.NetworkIn = ZeroRat
    /\ current.NetworkOut.n > 0

\* C18: a tick whose network sample has no earlier sample to compare with
\* (the first tick, or the first successful sample after failed ones)
\* publishes rate 0 in both directions.
C18_NoBaselineRateZero ==
    (NetTickPublished /\ ~netHist.prev.ok) => (current.NetworkIn.n = 0 /\ current.NetworkOut.n = 0)

\* C19: for two successive successful samples with counters that did not go
\* down, the published rate is the counter difference divided by the seconds
\* between the two samples.
C19_RateOverSampleInterval ==
    (NetTickPublished /\ netHist.prev.ok /\ netHist.cur.in >= netHist.prev.in /\ netHist.cur.out >= netHist.prev.out) =>
        /\ RatEq(current.NetworkIn, Rat(netHist.cur.in - netHist.prev.in, netHist.cur.time - netHist.prev.time))
        /\ RatEq(current.NetworkOut, Rat(netHist.cur.out - netHist.prev.out, netHist.cur.time - netHist.prev.time))

\* ------------------------------------------------ claims on the collector lock
\* C20: while the collector's lock is held no adapter is being queried and no
\* store write is in progress, and while collect() is busy with an adapter or
\* with the store a reader of GetCurrentMetrics or GetDockerStatus gets its
\* read.
C20_LockOnlyForTheSwap ==
    /\ mu # "unlocked" => ~InFlight
    /\ InFlight =>
          /\ apc = "idle" => ENABLED (APIStatus(StatusBackendInputs) /\ UNCHANGED collectorVars /\ apc' = "docker")
          /\ apc = "docker" => ENABLED (APIBuild /\ UNCHANGED collectorVars)

\* A status request has read the snapshot of the running tick while that
\* tick's BulkInsert is still in progress.
C20_Witness ==
    /\ cpc = "insert"
    /\ mu = "unlocked"
    /\ tick >= 1
    /\ apc = "docker"
    /\ ast.metrics.tick = tick

\* ------------------------------------------------ claims on the registry lock
\* A goroutine of the server is inside a send to a client queue.
Sending == bpc = "send" \/ \E c \in Clients : gpc[c] = "send"

\* A goroutine of the server is inside getCurrentStatus (GetStats, the
\* collector's getters).
Querying == bpc = "docker" \/ apc = "docker" \/ \E c \in Clients : gpc[c] \in {"status", "docker"}

\* C21: while the registry lock is held no goroutine is sending to a client
\* queue or querying an adapter, and while a send or a query is in progress a
\* handler can add its queue to the registry or remove it.
C21_RegistryLockOnlyForTheSet ==
    /\ sseMutex # "unlocked" => (~Sending /\ ~Querying /\ ~InFlight)
    /\ (Sending \/ Querying) =>
          \A c \in Clients :
             /\ hpc[c] = "new" => ENABLED (SSERegister(c) /\ UNCHANGED collectorVars)
             /\ (hpc[c] = "wait" /\ c \in ctxc) => ENABLED (SSEUnregister(c) /\ UNCHANGED collectorVars)

\* A broadcast round is inside its send loop with a client still to serve,
\* and that client's handler is about to remove its queue from the registry.
C21_Witness ==
    /\ bpc = "send"
    /\ \E c \in bTodo : hpc[c] = "wait" /\ c \in ctxc /\ c \in sseClients

\* ------------------------------------------------ claims on the metrics store
\* C22: a BulkInsert that returns an error leaves the snapshot of its tick in
\* place (c.current is still the one assembled in that tick, the container
\* list is untouched) and collect() returns to the loop of Start, which takes
\* the next tick as after a successful write.
C22_WriteFailureKeepsSnapshotAndLoop ==
    /\ [][(cpc = "insert" /\ bulkErrs' = bulkErrs + 1) =>
            (current' = current /\ current.tick = tick /\ dockerStatus' = dockerStatus /\ tick' = tick /\ cpc' = "idle")]_vars
    /\ [](cpc = "idle" /\ bulkErrs >= 1 /\ tick < MaxTicks /\ tickerC >= 1 =>
            ENABLED (CollectSample(StoreFailSets, ConcBackendInputs, {0}, StoreDts) /\ UNCHANGED <<serverVars, pureVars>>))

\* The batch write of tick 1 failed and tick 2 ran: its snapshot is current
\* and its rows are the only ones the store has.
C22_Witness ==
    /\ cpc = "idle"
    /\ tick = 2
    /\ current.tick = 2
    /\ bulkCalls = 2
    /\ bulkErrs = 1
    /\ dbRows # {}
    /\ \A r \in dbRows : r.batch = 2

\* The rows of the BulkInsert call that collect() is about to make.
PendingBatch ==
    LET batch == BatchRows(loc.systemMetrics, loc.serviceStatuses, bulkCalls + 1, now)
    IN  {batch[i] : i \in 1..Len(batch)}

\* C23: when BulkInsert returns without an error every metric row and every
\* service row of the batch is in the store, and when it returns an error (at
\* Begin, a Prepare, any INSERT or the Commit) the store holds exactly the rows
\* it held before the call.
C23_BatchWriteAtomic ==
    [][(cpc = "insert" /\ cpc' # "insert") =>
         /\ PendingBatch \cap dbRows = {}
         /\ IF bulkErrs' = bulkErrs
            THEN dbRows' = dbRows \cup PendingBatch
            ELSE dbRows' = dbRows]_vars

\* Two batch writes have returned, one with an error: the store holds the
\* metric rows and the service rows of the first and no row of the second.
C23_Witness ==
    /\ cpc = "idle"
    /\ bulkCalls = 2
    /\ bulkErrs = 1
    /\ \E r \in dbRows : r.table = "system_metrics" /\ r.batch = 1
    /\ \E r \in dbRows : r.table = "service_status" /\ r.batch = 1
    /\ \A r \in dbRows : r.batch = 1

\* ------------------------------------------------ claims on the returned values
\* C24: the backing array of a list GetDockerStatus has returned is never
\* written again (a later tick stores a list in a new array), and the
\* SystemMetrics value and the list a reader holds between its steps stay as
\* they were read whatever the collector does, its in-place write of
\* c.current.DockerConnected included.
C24_ReturnedValuesNeverModified ==
    /\ [][dockerStatus'.arr = dockerStatus.arr => dockerStatus'.list = dockerStatus.list]_vars
    /\ [][(apc = "docker" /\ apc' = "docker") => ast' = ast]_vars
    /\ [][(apc = "respond" /\ apc' = "respond") => ast' = ast]_vars

\* A status request holds the SystemMetrics value it read in tick 1 with
\* DockerConnected true; since then collect() has cleared the flag in place on
\* c.current and stored the container list of tick 1 in its own array.
C24_Witness ==
    /\ apc = "docker"
    /\ ast.metrics.tick = 1
    /\ ast.metrics.DockerConnected
    /\ current.tick = 1
    /\ ~current.DockerConnected
    /\ tick = 2

\* ------------------------------------------------ claims on the pure functions
\* C25: formatDuration prints at most two units, and never a unit whose value
\* is zero next to a larger unit.
C25_TwoNonZeroUnits ==
    output.fn = "formatDuration" =>
        /\ Len(output.res) <= 2
        /\ Len(output.res) > 1 => \A i \in 1..Len(output.res) : output.res[i][1] > 0

RECURSIVE Pow(_, _)
Pow(b, e) == IF e = 0 THEN 1 ELSE b * Pow(b, e - 1)

UnitNames == <<"KB", "MB", "GB", "TB", "PB", "EB">>

\* C26: formatBytes prints a count below 1024 as that integer with "B", and a
\* count of at least 1024 as count/1024^k to one decimal place with the k-th
\* unit, k the largest exponent with 1024^k not above the count.
C26_FormatBytesByLargestUnit ==
    output.fn = "formatBytes" =>
        IF input.arg < 1024
        THEN output.res = <<input.arg, "B">>
        ELSE LET k == CHOOSE e \in 1..6 : Pow(1024, e) <= input.arg /\ input.arg < Pow(1024, e + 1)
             IN  output.res = <<Dec1(Rat(input.arg, Pow(1024, k))), UnitNames[k]>>

\* 1048576 bytes have been formatted as "1.0 MB".
C26_Witness ==
    /\ input = [fn |-> "formatBytes", arg |-> 1048576]
    /\ output.fn = "formatBytes"
    /\ output.res = << <<1, 0>>, "MB">>

\* C27: for every backend name and every container name the latest-status map
\* has two keys, each with the one row of its own source.
C27_SourcesNeverCollide ==
    output.fn = "latest" =>
        /\ Cardinality(DOMAIN output.res) = 2
        /\ \A k \in DOMAIN output.res : Cardinality(output.res[k]) = 1

\* The map has been made for a backend and a container of the same name.
C27_Witness ==
    /\ output.fn = "latest"
    /\ input.backend = TrimSlash(input.container)
    /\ Cardinality(DOMAIN output.res) = 2

\* ------------------------------------------------ claims on the Docker client
\* C28: when NewCollector could not make the Docker client, no tick calls the
\* container runtime, DockerConnected is false in the snapshot a tick builds
\* and in every published one, and the stored container list is the empty
\* initial one.
C28_NoClientNoDocker ==
    ~dockerClient =>
        /\ "docker" \notin loc.queried
        /\ ~current.DockerConnected
        /\ cpc \in {"publish", "insert"} => ~loc.metrics.DockerConnected
        /\ dockerStatus = NilDockerStatus
        /\ \A i \in 1..Len(loc.serviceStatuses) : SubSeq(loc.serviceStatuses[i].Service, 1, Len(DockerPrefix)) # DockerPrefix

\* Without a Docker client two ticks have run to their end.
C28_Witness ==
    /\ ~dockerClient
    /\ cpc = "idle"
    /\ tick = 2
    /\ current.tick = 2
    /\ bulkCalls = 2

\* ------------------------------------------------ claims on the shutdown
\* C29: once the store connection is closed the collection loop has stopped
\* and the broadcast loop is not inside a round, so that nothing runs against
\* the closed store.
C29_StoppedBeforeStoreCloses ==
    ~dbOpen => (cpc = "stopped" /\ bpc = "tick")

\* collect() is about to call BulkInsert on the closed store.
WriteOnClosedStore == ~dbOpen /\ cpc = "insert"

\* ------------------------------------------------ claims on the retention
\* C30: a sweep, whichever of its two DELETEs fail, removes from each table
\* whose DELETE succeeds exactly the rows with a timestamp more than 7 days
\* before the sweep and leaves the other table as it is; no step removes a
\* row that is not older than 7 days; and the cleanup goroutine can always
\* make its next sweep.
C30_SweepDeletesOnlyOldRows ==
    /\ [](\A failed \in SUBSET Tables, r \in dbRows :
            r \in cleanupOldData(dbRows, now - Retention, failed)
                <=> (r.table \in failed \/ r.timestamp >= now - Retention))
    /\ [][\A r \in dbRows \ dbRows' : r.timestamp < now - Retention]_vars
    /\ [](ENABLED (CleanupSweep(SweepFailSets) /\ UNCHANGED <<serverVars, pureVars>>))

\* A sweep whose DELETE on service_status failed has removed the metric rows
\* of the first batch, which are more than 7 days old, and has kept those of
\* the second; the old service rows are still there for a later sweep.
C30_Witness ==
    /\ \E r \in dbRows : r.batch = 1 /\ r.table = "service_status" /\ r.timestamp < now - Retention
    /\ \A r \in dbRows : r.table = "system_metrics" => r.batch = 2
    /\ \E r \in dbRows : r.table = "system_metrics"

\* ------------------------------------------------ claims on the HTTP surface
\* C31: a GET of each documented endpoint reaches its handler: /api/events
\* the SSE handler, / the dashboard, /api/status, /api/metrics and /health
\* theirs.
C31_DocumentedRoutesServed ==
    (output.fn = "route" /\ input.method = "GET") =>
        /\ input.path = "/api/events" => output.res = "handleSSE"
        /\ input.path = "/" => output.res = "handleDashboard"
        /\ input.path = "/api/status" => output.res = "handleAPIStatus"
        /\ input.path = "/api/metrics" => output.res = "handleAPIMetrics"
        /\ input.path = "/health" => output.res = "handleHealth"

\* ------------------------------------------------ claims on the batch of a tick
\* The metric types of the rows in the batch collect() is assembling.
BatchTypes == {loc.systemMetrics[i].MetricType : i \in 1..Len(loc.systemMetrics)}

\* C32: the snapshot a tick publishes has DatabaseConnected true exactly when
\* the size query succeeded or the ping after its failure succeeded; after a
\* failed size query DatabaseSize is 0 and the batch has no database_size row,
\* with or without a successful ping.
C32_DatabaseConnectedBySizeOrPing ==
    TickPublished =>
        /\ current.DatabaseConnected <=> ("dbsize" \notin fail \/ "dbping" \notin fail)
        /\ "dbsize" \in fail => current.DatabaseSize = 0
        /\ (cpc = "insert" /\ "dbsize" \in fail) => "database_size" \notin BatchTypes
        /\ (cpc = "insert" /\ "dbsize" \notin fail) => "database_size" \in BatchTypes

\* A tick whose size query failed and whose ping succeeded has published.
C32_Witness ==
    /\ cpc = "insert"
    /\ "dbsize" \in fail
    /\ "dbping" \notin fail
    /\ current.tick = tick
    /\ current.DatabaseConnected
    /\ current.DatabaseSize = 0

\* The metric types the adapters outside F add to the batch.
ExpectedTypes(F) ==
    (IF "cpu" \in F THEN {} ELSE {"cpu"})
        \cup (IF "mem" \in F THEN {} ELSE {"memory", "memory_used", "memory_total"})
        \cup (IF "disk" \in F THEN {} ELSE {"disk", "disk_used", "disk_total"})
        \cup (IF "net" \in F THEN {} ELSE {"network_in_rate", "network_out_rate"})
        \cup (IF "dbsize" \in F THEN {} ELSE {"database_size"})

\* The field of a snapshot which a metric type is the row of.
SnapshotValue(m, type) ==
    CASE type = "cpu" -> m.CPUPercent
      [] type = "memory" -> m.MemoryPercent
      [] type = "memory_used" -> m.MemoryUsed
      [] type = "memory_total" -> m.MemoryTotal
      [] type = "disk" -> m.DiskPercent
      [] type = "disk_used" -> m.DiskUsed
      [] type = "disk_total" -> m.DiskTotal
      [] type = "network_in_rate" -> m.NetworkIn
      [] type = "network_out_rate" -> m.NetworkOut
      [] type = "database_size" -> m.DatabaseSize

\* C33: when a tick has published, its batch has one metric row for each type
\* of each adapter that succeeded and none for an adapter that failed, each
\* with the value of its field in the published snapshot; it has one service
\* row for each backend exactly when HAProxy answered and one for each
\* container exactly when the container runtime answered, with the prefixed
\* name as key and status "UP" when the backend is active or the container
\* healthy and "DOWN" otherwise.
C33_BatchRowsOfSucceededAdapters ==
    cpc = "insert" =>
        LET nb == IF "haproxy" \in fail THEN 0 ELSE Len(loc.stats)
            list == IF dockerClient /\ "docker" \notin fail THEN dockerStatus.list ELSE <<>>
            rows == loc.serviceStatuses
        IN  /\ BatchTypes = ExpectedTypes(fail)
            /\ Len(loc.systemMetrics) = Cardinality(BatchTypes)
            /\ \A i \in 1..Len(loc.systemMetrics) :
                  loc.systemMetrics[i].Value = SnapshotValue(current, loc.systemMetrics[i].MetricType)
            /\ Len(rows) = nb + Len(list)
            /\ \A i \in 1..nb :
                  /\ rows[i].Service = <<"h", "a", "p", "r", "o", "x", "y", "_">> \o loc.stats[i].Name
                  /\ rows[i].Status = (IF loc.stats[i].Active THEN "UP" ELSE "DOWN")
            /\ \A i \in 1..Len(list) :
                  /\ rows[nb + i].Service = <<"d", "o", "c", "k", "e", "r", "_">> \o list[i].Name
                  /\ rows[nb + i].Status = (IF list[i].Healthy THEN "UP" ELSE "DOWN")

\* A tick with a failed cpu.Percent, an inactive backend and an unhealthy
\* container is about to write its batch.
C33_Witness ==
    /\ cpc = "insert"
    /\ "cpu" \in fail
    /\ "haproxy" \notin fail
    /\ \E i \in 1..Len(loc.stats) : ~loc.stats[i].Active
    /\ dockerClient
    /\ "docker" \notin fail
    /\ \E i \in 1..Len(dockerStatus.list) : ~dockerStatus.list[i].Healthy
    /\ "memory" \in BatchTypes

\* ------------------------------------------------ claims on the served status
\* C34: in the status getCurrentStatus returns, an active backend has as
\* Uptime its formatted time since the last change and no Details, an inactive
\* one has no Uptime and as Details "Down for " with that formatted time; the
\* backends come first and the containers after them, and entry i of the
\* event's services is entry i of that list.
C34_BackendUptimeAndOrder ==
    output.fn = "status" =>
        LET bs == input.backends
            sv == output.status.Services
        IN  /\ Len(sv) = Len(bs) + Len(input.docker)
            /\ \A i \in 1..Len(bs) :
                  /\ sv[i].Name = bs[i].Name
                  /\ IF bs[i].Active
                     THEN sv[i].Uptime = formatDuration(bs[i].LastChange) /\ sv[i].Details = <<>>
                     ELSE sv[i].Uptime = <<>> /\ sv[i].Details = <<"Down for ">> \o formatDuration(bs[i].LastChange)
            /\ \A j \in 1..Len(input.docker) : sv[Len(bs) + j] = input.docker[j]
            /\ Len(output.event.Data.services) = Len(sv)
            /\ \A i \in 1..Len(sv) :
                  output.event.Data.services[i] =
                      [status |-> sv[i].Status, healthy |-> sv[i].Healthy, details |-> sv[i].Details, uptime |-> sv[i].Uptime]

\* C35: GET /health answers 200 "healthy" exactly when the ping of the store
\* succeeded, HAProxy answered and every backend it reported has status UP
\* (also when it reported none); otherwise it answers 503 "unhealthy".
C35_HealthyOnlyWhenAllUp ==
    output.fn = "health" =>
        LET allUp == input.ping /\ input.stats /\ \A i \in 1..Len(input.backends) : input.backends[i].Status = "UP"
        IN  /\ allUp => (output.res.code = 200 /\ output.res.status = "healthy")
            /\ ~allUp => (output.res.code = 503 /\ output.res.status = "unhealthy")

\* The store and HAProxy answered, one of two backends is DOWN, and the
\* answer was 503.
C35_Witness ==
    /\ output.fn = "health"
    /\ input.ping
    /\ input.stats
    /\ Len(input.backends) = 2
    /\ input.backends[1].Status = "UP"
    /\ input.backends[2].Status = "DOWN"
    /\ output.res.code = 503


\* ------------------------------------------------- registry accesses, C36
\* handleSSE's accesses to s.sseClients one by one, with the write lock held
\* across steps (sseMutex = "write" while a handler is between Lock and
\* Unlock).
\* server.go:169: s.sseMutex.Lock().
SSELock(c) ==
    /\ hpc[c] = "new"
    /\ sseMutex = "unlocked"
    /\ sseMutex' = "write"
    /\ hpc' = [hpc EXCEPT ![c] = "locked"]
    /\ UNCHANGED <<sseClients, chClosed, ctxc, gpc, gst, connSnap, bpc, bst, bTodo, bRound, bSent, bDropped, apc, ast, panicked>>

\* server.go:170-171: the channel is inserted and the lock released.
SSEInsert(c) ==
    /\ hpc[c] = "locked"
    /\ sseClients' = sseClients \cup {c}
    /\ sseMutex' = "unlocked"
    /\ hpc' = [hpc EXCEPT ![c] = "log"]
    /\ UNCHANGED <<chClosed, ctxc, gpc, gst, connSnap, bpc, bst, bTodo, bRound, bSent, bDropped, apc, ast, panicked>>

\* server.go:173-176: len(s.sseClients) is read for the log line, after the
\* Unlock of line 171, and the catch-up goroutine is started.
SSELogClients(c) ==
    /\ hpc[c] = "log"
    /\ hpc' = [hpc EXCEPT ![c] = "registered"]
    /\ gpc' = [gpc EXCEPT ![c] = "status"]
    /\ connSnap' = [connSnap EXCEPT ![c] = <<current.tick, dockerStatus.tick>>]
    /\ UNCHANGED <<sseMutex, sseClients, chClosed, ctxc, gst, bpc, bst, bTodo, bRound, bSent, bDropped, apc, ast, panicked>>

\* server.go:251-252 and 213: Stream returns on ctx.Done() and the deferred
\* function takes the lock.
SSEDeferLock(c) ==
    /\ hpc[c] = "wait"
    /\ c \in ctxc
    /\ sseMutex = "unlocked"
    /\ sseMutex' = "write"
    /\ hpc' = [hpc EXCEPT ![c] = "unlocking"]
    /\ UNCHANGED <<sseClients, chClosed, ctxc, gpc, gst, connSnap, bpc, bst, bTodo, bRound, bSent, bDropped, apc, ast, panicked>>

\* server.go:214-215: the channel is deleted and the lock released.
SSEDelete(c) ==
    /\ hpc[c] = "unlocking"
    /\ sseClients' = sseClients \ {c}
    /\ sseMutex' = "unlocked"
    /\ hpc' = [hpc EXCEPT ![c] = "closing"]
    /\ UNCHANGED <<chClosed, ctxc, gpc, gst, connSnap, bpc, bst, bTodo, bRound, bSent, bDropped, apc, ast, panicked>>

\* The handlers step by step beside the broadcaster.
RegistryNext ==
    \/ \E c \in Clients : ~panicked /\ SSELock(c) /\ UNCHANGED <<collectorVars, pureVars>>
    \/ \E c \in Clients : ~panicked /\ SSEInsert(c) /\ UNCHANGED <<collectorVars, pureVars>>
    \/ \E c \in Clients : ~panicked /\ SSELogClients(c) /\ UNCHANGED <<collectorVars, pureVars>>
    \/ \E c \in Clients : ~panicked /\ SSEEnterSelect(c) /\ UNCHANGED <<collectorVars, pureVars>>
    \/ \E c \in Clients : ~panicked /\ SSEWrite(c) /\ UNCHANGED <<collectorVars, pureVars>>
    \/ \E c \in Clients : ~panicked /\ ClientCancel(c) /\ UNCHANGED <<collectorVars, pureVars>>
    \/ \E c \in Clients : ~panicked /\ SSEDeferLock(c) /\ UNCHANGED <<collectorVars, pureVars>>
    \/ \E c \in Clients : ~panicked /\ SSEDelete(c) /\ UNCHANGED <<collectorVars, pureVars>>
    \/ \E c \in Clients : ~panicked /\ SSEClose(c) /\ UNCHANGED <<collectorVars, pureVars>>
    \/ \E c \in Clients : ~panicked /\ CatchUpStatus(c, ConcBackendInputs) /\ UNCHANGED <<collectorVars, pureVars>>
    \/ \E c \in Clients : ~panicked /\ CatchUpBuild(c) /\ UNCHANGED <<collectorVars, pureVars>>
    \/ \E c \in Clients : ~panicked /\ CatchUpSend(c) /\ UNCHANGED <<collectorVars, pureVars>>
    \/ ~panicked /\ BroadcastTick(ConcBackendInputs) /\ UNCHANGED <<collectorVars, pureVars>>
    \/ ~panicked /\ BroadcastSkip /\ UNCHANGED <<collectorVars, pureVars>>
    \/ ~panicked /\ BroadcastBuild /\ UNCHANGED <<collectorVars, pureVars>>
    \/ ~panicked /\ BroadcastCopy /\ UNCHANGED <<collectorVars, pureVars>>
    \/ ~panicked /\ BroadcastSend /\ UNCHANGED <<collectorVars, pureVars>>
    \/ ~panicked /\ BroadcastDone /\ UNCHANGED <<collectorVars, pureVars>>

SpecRegistry == Init /\ [][RegistryNext]_vars

\* The handler's next step writes the map (server.go:170, 215).
RegistryWriter(c) == hpc[c] \in {"locked", "unlocking"}

\* The handler's next step reads the map's size (server.go:173).
RegistryReader(c) == hpc[c] = "log"

\* The handler is between Lock and Unlock (server.go:169-171, 213-215).
HoldsRegistryLock(c) == sseMutex = "write" /\ hpc[c] \in {"locked", "unlocking"}

\* C36: every read and write of the registry map, the read of its size
\* included, is made by a goroutine that holds the registry lock, so never
\* beside a write of another goroutine.
C36_RegistryAccessUnderLock ==
    /\ \A c \in Clients : (RegistryWriter(c) \/ RegistryReader(c)) => HoldsRegistryLock(c)
    /\ \A c, d \in Clients : ~(c # d /\ RegistryReader(c) /\ RegistryWriter(d))


\* The handler has registered its queue and has not begun to deregister it.
Registered(c) == hpc[c] \in {"registered", "wait", "write"}

\* C37: the registry holds exactly the queues of the handlers that have
\* registered and not begun to deregister, every queue in it is open, a
\* queue is closed only after it left the registry, and only once.
C37_RegistryHoldsOpenQueuesOfRegistered ==
    /\ [](\A c \in Clients : c \in sseClients <=> Registered(c))
    /\ [](sseClients \cap chClosed = {})
    /\ [][\A c \in Clients :
            /\ (c \in chClosed' /\ c \notin chClosed) => (c \notin sseClients /\ hpc[c] = "closing")
            /\ (hpc[c] = "closing" /\ hpc'[c] # "closing") => (c \notin chClosed /\ c \in chClosed')
            /\ c \in chClosed => (c \in chClosed' /\ c \notin sseClients')]_vars

\* A handler has registered, deregistered and closed its queue.
C37_Witness ==
    \E c \in Clients : hpc[c] = "closed" /\ c \in chClosed /\ c \notin sseClients


\* C38: every signal key of the dashboard's initial render is a key of the
\* catch-up update and of the periodic update, and the two updates have the
\* same keys.
C38_LiveUpdatesCoverInitialSignals ==
    output.fn = "dashboard" =>
        /\ SignalKeys(output.signals) \subseteq SignalKeys(output.catchup.Data)
        /\ SignalKeys(output.signals) \subseteq SignalKeys(output.periodic.Data)
        /\ SignalKeys(output.catchup.Data) = SignalKeys(output.periodic.Data)


\* The scalar signals the initial render and the live updates both carry.
SharedSignals ==
    {"cpuPercent", "memoryPercent", "diskPercent", "networkIn", "networkOut", "uptime", "databaseSize", "lastUpdated"}

\* C39: the two copies of formatDuration return the same string for every
\* duration, the two copies of formatBytes the same string for every byte
\* count, and so a value has the same text in the initial page and in a live
\* update of the same status.
C39_DuplicatedFormattersAgree ==
    /\ output.fn = "formatDuration" => output.res = output.collector
    /\ output.fn = "formatBytes" => output.res = output.template
    /\ output.fn = "dashboard" =>
          /\ \A k \in SharedSignals : output.signals[k] = output.periodic.Data[k]
          /\ output.signals.services = output.periodic.Data.services

\* Both copies of formatBytes have formatted exactly one mebibyte.
C39_Witness ==
    /\ output.fn = "formatBytes"
    /\ input.arg = Unit * Unit
    /\ output.template = output.res
    /\ output.res[2] = "MB"

====
